---- MODULE Spec2Model ----
(***************************************************************************)
(* State-machine model of the resilience core of temandifa-ai-service:     *)
(*   - DynamicBatcher   (app/core/performance/batcher.py)                  *)
(*   - CircuitBreaker   (app/core/performance/circuit_breaker.py) as used  *)
(*                      by VQAService (app/services/vqa_service.py)        *)
(*   - ServiceHealth    (app/core/degradation.py)                          *)
(*   - request dispatch (app/routers/*.py, app/core/http/middleware.py)    *)
(*   - MemoryPool       (app/core/performance/memory_pool.py)              *)
(*   - worker lifecycle (app/main.py lifespan, app/worker.py)              *)
(*   - lock discipline  (the locks of DynamicBatcher and MemoryPool)       *)
(* Each component has its own next-state relation and specification; the   *)
(* variables of the other components stay at their initial values.         *)
(***************************************************************************)
EXTENDS Integers, Sequences, FiniteSets, TLC

(***************************************************************************)
(* Bounds of the model.                                                    *)
(***************************************************************************)
\* number of add() calls made on the batcher
MaxItems == 4
\* DynamicBatcher(max_batch_size=...), scaled down
max_batch_size == 2
\* DynamicBatcher(max_wait_ms=...), in clock ticks
max_wait_ms == 2
\* worker threads running answer_question
NumThreads == 2
\* answer_question calls made in a behaviour
MaxRequests == 2
\* CircuitBreaker(failure_threshold=...), scaled down
failure_threshold == 2
\* CircuitBreaker(recovery_timeout=...), in clock ticks
recovery_timeout == 1
\* largest CircuitBreaker(half_open_max_calls=...) tried
MaxHalfOpen == 2
\* ticks of time.time() after the breaker was constructed
MaxClock == 4
\* largest ServiceHealth(failure_threshold=...) tried
MaxThreshold == 4
\* record_success / record_failure calls on the ServiceHealth
MaxHealthCalls == 6
\* ServiceHealth(recovery_timeout=...), in clock ticks
HealthRecoveryTimeout == 2
\* fallbacks served between two recorded outcomes
MaxFallbacks == 2
\* worker threads calling get_pool
NumGetters == 2
\* get_pool calls of one worker thread
MaxGetPoolCalls == 2
\* gRPC channels the AIClient may create
MaxChannels == 3
\* concurrent HTTP requests handled by the request-facing process
NumRequests == 2
\* settings.request_timeout, in clock ticks
request_timeout == 2
\* ticks of time.time() the request-facing process is observed for
DispatchHorizon == 4
\* worker threads using a MemoryPool
NumPoolThreads == 3
\* largest MemoryPool(pool_size=...) a pool is constructed with
MaxInitPool == 2
\* largest pool_size a pool is resized to
MaxPoolSize == 3
\* acquire() calls made on the pool
MaxAcquires == 3
\* calls the worker's gRPC server accepts in a behaviour
MaxCalls == 2
\* callers of add that are cancelled while they wait
MaxCancels == 1
\* number of add() calls made when callers may be cancelled
MaxItemsWithCancel == 3
\* coroutines calling DynamicBatcher.add
NumAdders == 1
\* tasks created with create_task(self._process_batch())
NumFlushTasks == 1
\* threads calling MemoryPool.acquire, resize or get_stats
NumPoolUsers == 1

Items == 1..MaxItems

Min(a, b) == IF a <= b THEN a ELSE b

Range(s) == {s[k] : k \in 1..Len(s)}

VARIABLES
    \* ---- DynamicBatcher ----
    queue,          \* self._queue: deque of BatchItem, as item ids
    data,           \* BatchItem.data per item (-1: item not created yet)
    future,         \* BatchItem.future per item
    timer_task,     \* self._timer_task: "none" | "sleeping" | "flushing" | "done"
    timer_left,     \* ticks left until the sleeping timer task wakes up
    is_processing,  \* self._is_processing
    tasks,          \* _process_batch tasks created by create_task, not yet run
    flights,        \* _process_batch coroutines suspended in await process_fn
    age,            \* ticks a queued item has waited, up to AgeCap
    \* history of the batcher
    nadded,         \* number of add calls so far
    burst,          \* first item of the burst of adds an item belongs to (0: none)
    calm,           \* whether an item was enqueued with no flush in progress
                    \* and fewer than max_batch_size items queued
    burst_age,      \* ticks since the first add of the latest burst, up to AgeCap
    batch_of,       \* number of the process_fn invocation that took an item (0: none)
    processed,      \* how many times an item's payload was passed to process_fn
    last_inv,       \* the latest process_fn invocation: trigger and waiting time
    last_done,      \* the latest process_fn invocation that ended, and how
    resolved,       \* how many times each item's future was set
    \* ---- CircuitBreaker and the worker threads of VQAService ----
    cb,             \* the breaker: state, failure_count, last_failure_time,
                    \* half_open_calls and its constructor parameter half_open_max_calls
    clock,          \* time.time()
    pc,             \* where each worker thread is in answer_question / execute
    attempt,        \* tenacity attempt number of each thread's _call_gemini_api
    err,            \* the exception a thread is propagating
    probe,          \* whether a thread's call was admitted in HALF_OPEN
    \* history of the breaker
    probes,         \* calls admitted in the current HALF_OPEN period and invoked
    requests,       \* answer_question calls started
    last_call,      \* the latest call made on the breaker and the state it found
    \* ---- ServiceHealth ----
    health,         \* one ServiceHealth dataclass instance
    hlog,           \* history: the latest call made on the health record and
                    \* the successes and failures recorded so far
    \* ---- request-facing process: routers, middleware, dispatch ----
    endpoint,       \* the endpoint the requests are sent to
    worker,         \* the worker process as the channel sees it: "alive" | "dead"
    cache,          \* whether the result for the request payload is cached
    req,            \* per request: position in the handler, trace id, outcome
    let_through,    \* real attempts permitted since the last recorded outcome
    \* ---- MemoryPool ----
    pool_size,      \* self.pool_size
    pool,           \* self._pool: the pooled BytesIO buffers, by index
    available,      \* self._available: list of free indexes
    total_acquired, \* self._total_acquired
    total_fallbacks,\* self._total_fallbacks
    user,           \* per thread: position in `with pool.acquire()`, idx,
                    \* is_pooled, its temporary buffer, and what it was handed
    \* ---- worker process lifecycle ----
    parent,         \* lifespan(): "boot" | "serving" | "joining" | "stopped"
    proc,           \* grpc_process / serve(): "none" | "running" | "draining"
                    \* | "cleanup" | "exited"
    sigterm,        \* SIGTERM sent by terminate() and not yet seen by serve()
    inflight,       \* calls in progress in the worker's gRPC server
    grace_left,     \* ticks left of _server.stop(grace=...)
    join_left,      \* ticks left of grpc_process.join(timeout=...)
    spawns,         \* Process.start() calls so far
    served,         \* calls the worker's server has completed
    cleaned,        \* cleanup_temp_files() ran: "no" | "after_stop" | "early"
    \* ---- locks of the batcher and the pool ----
    running,        \* per coroutine or thread: the code path it runs and the
                    \* statement it is at (0: not running)
    holder,         \* per lock: who holds it
    \* ---- get_pool: the module-level registry of memory pools ----
    pools,          \* _pools: per name, the MemoryPool stored (0: no entry)
    made,           \* per name, the MemoryPool instances constructed so far
    getter,         \* per worker thread: position in get_pool, its name
                    \* argument, the pool it constructed, its calls so far
    given,          \* per name, the instances get_pool has returned
    \* ---- AIClient ----
    channel,        \* self.channel (0: None)
    stub,           \* self.stub, as the channel it is bound to (0: None)
    connected,      \* self._connected
    nchannels,      \* channels created so far; channel k is the k-th
    closed,         \* the channels whose close() has completed
    handed,         \* the stub the latest get_stub() returned, and whether
                    \* its channel was open then
    answered        \* what the latest is_connected() answered, and whether
                    \* the client held an open channel then

bvars == <<queue, data, future, timer_task, timer_left, is_processing, tasks,
           flights, age, nadded, burst, calm, burst_age, batch_of, processed, last_inv,
           last_done, resolved>>
tvars == <<pc, attempt, err, probe, probes, requests, last_call>>
cvars == <<cb, clock, tvars>>
hvars == <<health, hlog>>
dvars == <<endpoint, worker, cache, req, let_through>>
\* the components added to the batcher, the breaker and the health record
pvars == <<pool_size, pool, available, total_acquired, total_fallbacks, user>>
wvars == <<parent, proc, sigterm, inflight, grace_left, join_left, spawns, served,
           cleaned>>
lvars == <<running, holder>>
gvars == <<pools, made, getter, given>>
avars == <<channel, stub, connected, nchannels, closed, handed, answered>>
xvars == <<dvars, pvars, wvars, lvars, gvars, avars>>

vars == <<bvars, cvars, hvars, xvars>>

(***************************************************************************)
(* DynamicBatcher                                                          *)
(***************************************************************************)
PendingFuture == [st |-> "pending", val |-> 0, exc |-> ""]
NoFuture == [st |-> "none", val |-> 0, exc |-> ""]

\* waiting times are counted up to one tick past max_wait_ms
AgeCap == max_wait_ms + 1

\* the result a correct process_fn computes for one payload
ProcessResult(p) == p + 10

\* what `await self.process_fn(inputs)` can produce: the positional results,
\* a list that is too short or too long, an Exception, or a BaseException such as
\* asyncio.CancelledError
ProcessOutcomes(inputs) ==
    LET good == [k \in 1..Len(inputs) |-> ProcessResult(inputs[k])]
    IN { [kind |-> "return", results |-> good],
         [kind |-> "return", results |-> SubSeq(good, 1, Len(good) - 1)],
         [kind |-> "return", results |-> Append(good, ProcessResult(0))],
         [kind |-> "Exception", results |-> <<>>],
         [kind |-> "BaseException", results |-> <<>>] }

\* variant: the size trigger compares with `>`
BatchFull_Strict(queue_size) == queue_size > max_batch_size

\* add, line 99: `if queue_size >= self.max_batch_size`
BatchFull(queue_size) == queue_size >= max_batch_size

\* variant: a finished timer task is not replaced
TimerNeeded_NoneOnly(tt) == tt = "none"

\* add, line 102: `elif self._timer_task is None or self._timer_task.done()`
TimerNeeded(tt) == tt \in {"none", "done"}

\* the batcher is idle: nothing queued, no flush running or scheduled
Idle == queue = <<>> /\ ~is_processing /\ flights = {} /\ tasks = 0

\* the burst the next add belongs to: it continues the current burst while it
\* arrives within max_wait_ms of the burst's first add and the burst has fewer
\* than max_batch_size adds; otherwise it starts a burst if the batcher is idle
BurstOf(i) ==
    LET prev == IF i = 1 THEN 0 ELSE burst[i - 1]
    IN IF prev # 0 /\ burst_age < max_wait_ms /\ i - prev < max_batch_size
       THEN prev
       ELSE IF Idle THEN i ELSE 0

\* the payload of the i-th add: every caller passes its own data
PayloadOf(i) == i

\* number of process_fn invocations so far
NumInvocations ==
    CHOOSE n \in 0..MaxItems :
        /\ \A i \in Items : batch_of[i] <= n
        /\ n > 0 => \E i \in Items : batch_of[i] = n

\* add(data), lines 81-112
Add ==
    LET i == nadded + 1
        queue_size == Len(queue) + 1
    IN /\ nadded < MaxItems
       /\ queue' = Append(queue, i)
       /\ data' = [data EXCEPT ![i] = PayloadOf(i)]
       /\ future' = [future EXCEPT ![i] = PendingFuture]
       /\ nadded' = i
       /\ age' = [age EXCEPT ![i] = 0]
       /\ burst' = [burst EXCEPT ![i] = BurstOf(i)]
       /\ calm' = [calm EXCEPT ![i] = (~is_processing /\ queue_size < max_batch_size)]
       /\ burst_age' = IF BurstOf(i) = i THEN 0 ELSE burst_age
       /\ IF BatchFull(queue_size)
          THEN /\ tasks' = tasks + 1
               /\ UNCHANGED <<timer_task, timer_left>>
          ELSE IF TimerNeeded(timer_task)
               THEN /\ timer_task' = "sleeping"
                    /\ timer_left' = max_wait_ms
                    /\ UNCHANGED tasks
               ELSE UNCHANGED <<tasks, timer_task, timer_left>>
       /\ UNCHANGED <<is_processing, flights, batch_of, processed, last_inv,
                       last_done, resolved>>
       /\ UNCHANGED <<cvars, hvars, xvars>>

\* variant: the flush does not look at _is_processing
SkipFlush_QueueOnly(q, processing) == q = <<>>

\* _process_batch, line 122: `if not self._queue or self._is_processing: return`
SkipFlush(q, processing) == q = <<>> \/ processing

\* variant: the flush takes the whole queue
BatchSize_All(n) == n

\* _process_batch, line 128
BatchSize(n) == Min(n, max_batch_size)

\* _process_batch, lines 121-146: the locked section up to the await
ProcessBatchStart(byTimer) ==
    IF SkipFlush(queue, is_processing)
    THEN /\ timer_task' = IF byTimer THEN "done" ELSE timer_task
         /\ UNCHANGED <<queue, is_processing, flights, age, batch_of, processed,
                         last_inv>>
    ELSE LET batch_size == BatchSize(Len(queue))
             batch == SubSeq(queue, 1, batch_size)
         IN /\ is_processing' = TRUE
            /\ queue' = SubSeq(queue, batch_size + 1, Len(queue))
            /\ flights' = flights \cup {[batch |-> batch, timer |-> byTimer]}
            /\ timer_task' = IF byTimer THEN "flushing" ELSE timer_task
            /\ age' = [i \in Items |-> IF i \in Range(batch) THEN 0 ELSE age[i]]
            /\ batch_of' = [i \in Items |->
                   IF i \in Range(batch) THEN NumInvocations + 1 ELSE batch_of[i]]
            /\ processed' = [i \in Items |->
                   IF i \in Range(batch) THEN processed[i] + 1 ELSE processed[i]]
            /\ last_inv' = [size |-> batch_size, timer |-> byTimer,
                            oldest |-> age[batch[1]]]

\* _wait_and_process, lines 114-117: the sleep is over
TimerFire ==
    /\ timer_task = "sleeping"
    /\ timer_left = 0
    /\ ProcessBatchStart(TRUE)
    /\ UNCHANGED <<data, future, timer_left, tasks, nadded, burst, calm, burst_age,
                   last_done, resolved>>
    /\ UNCHANGED <<cvars, hvars, xvars>>

\* a task created by asyncio.create_task(self._process_batch()) runs
RunTask ==
    /\ tasks > 0
    /\ tasks' = tasks - 1
    /\ ProcessBatchStart(FALSE)
    /\ UNCHANGED <<data, future, timer_left, nadded, burst, calm, burst_age,
                   last_done, resolved>>
    /\ UNCHANGED <<cvars, hvars, xvars>>

\* variant: only a list that is too short is a mismatch
Mismatch_Short(out, batch) == out.kind = "return" /\ Len(out.results) < Len(batch)

\* _process_batch, lines 149-152: the length check
Mismatch(out, batch) == out.kind = "return" /\ Len(out.results) # Len(batch)

\* _process_batch, line 164: `except Exception as e`
Caught(out, batch) == out.kind = "Exception" \/ Mismatch(out, batch)

\* position of item i in a batch
PosIn(batch, i) == CHOOSE k \in 1..Len(batch) : batch[k] = i

\* variant: the flush sets a future without asking whether it is done
Settle_Unguarded(fut, k, out, batch) ==
    IF Caught(out, batch)
    THEN [st |-> "exception", val |-> 0,
          exc |-> IF Mismatch(out, batch) THEN "ValueError" ELSE "Exception"]
    ELSE IF out.kind = "return"
         THEN [st |-> "result", val |-> out.results[k], exc |-> ""]
    ELSE fut

\* _process_batch, lines 154-156 and 171-173: what the flush sets a future to
Settle(fut, k, out, batch) ==
    IF fut.st # "pending" THEN fut
    ELSE IF Caught(out, batch)
         THEN [st |-> "exception", val |-> 0,
               exc |-> IF Mismatch(out, batch) THEN "ValueError" ELSE "Exception"]
    ELSE IF out.kind = "return"
         THEN [st |-> "result", val |-> out.results[k], exc |-> ""]
    ELSE fut

\* _process_batch, lines 146-180: process_fn is over; results or the error
\* are distributed and the `finally` block runs
ProcessFinish(f, out) ==
    LET members == Range(f.batch)
        settled(i) == Settle(future[i], PosIn(f.batch, i), out, f.batch)
    IN /\ f \in flights
       /\ out \in ProcessOutcomes([k \in 1..Len(f.batch) |-> data[f.batch[k]]])
       /\ future' = [i \in Items |-> IF i \in members THEN settled(i) ELSE future[i]]
       /\ resolved' = [i \in Items |->
              IF i \in members /\ settled(i) # future[i]
              THEN resolved[i] + 1 ELSE resolved[i]]
       /\ flights' = flights \ {f}
       /\ is_processing' = FALSE
       /\ tasks' = IF queue # <<>> THEN tasks + 1 ELSE tasks
       /\ timer_task' = IF f.timer THEN "done" ELSE timer_task
       /\ last_done' = [inv |-> batch_of[f.batch[1]], kind |-> out.kind,
                        nresults |-> Len(out.results)]
       /\ UNCHANGED <<queue, data, timer_left, age, nadded, burst, calm, burst_age,
                       batch_of, processed, last_inv>>
       /\ UNCHANGED <<cvars, hvars, xvars>>

\* the event loop sleeps only when no task is ready and no timer is due
Tick ==
    /\ tasks = 0
    /\ ~(timer_task = "sleeping" /\ timer_left = 0)
    /\ timer_left' = IF timer_task = "sleeping" THEN timer_left - 1 ELSE timer_left
    /\ age' = [i \in Items |->
           IF i \in Range(queue) THEN Min(age[i] + 1, AgeCap) ELSE age[i]]
    /\ burst_age' = Min(burst_age + 1, AgeCap)
    /\ UNCHANGED <<queue, data, future, timer_task, is_processing, tasks,
                   flights, nadded, burst, calm, batch_of, processed, last_inv,
                   last_done, resolved>>
    /\ UNCHANGED <<cvars, hvars, xvars>>

BInit ==
    /\ queue = <<>>
    /\ data = [i \in Items |-> -1]
    /\ future = [i \in Items |-> NoFuture]
    /\ timer_task = "none"
    /\ timer_left = 0
    /\ is_processing = FALSE
    /\ tasks = 0
    /\ flights = {}
    /\ age = [i \in Items |-> 0]
    /\ nadded = 0
    /\ burst = [i \in Items |-> 0]
    /\ calm = [i \in Items |-> FALSE]
    /\ burst_age = 0
    /\ batch_of = [i \in Items |-> 0]
    /\ processed = [i \in Items |-> 0]
    /\ last_inv = [size |-> 0, timer |-> FALSE, oldest |-> 0]
    /\ last_done = [inv |-> 0, kind |-> "none", nresults |-> 0]
    /\ resolved = [i \in Items |-> 0]

\* some suspended flush resumes with some outcome of process_fn
Finish ==
    \E f \in flights :
        \E out \in ProcessOutcomes([k \in 1..Len(f.batch) |-> data[f.batch[k]]]) :
            ProcessFinish(f, out)

\* the caller of item i is cancelled while it awaits item.future (add, line
\* 112): the future is cancelled with it, the item stays where it is
CancelCaller ==
    \E i \in Items :
        /\ future[i].st = "pending"
        /\ Cardinality({j \in Items : future[j].st = "cancelled"}) < MaxCancels
        /\ future' = [future EXCEPT ![i] = [st |-> "cancelled", val |-> 0, exc |-> ""]]
        /\ UNCHANGED <<queue, data, timer_task, timer_left, is_processing, tasks,
                       flights, age, nadded, burst, calm, burst_age, batch_of,
                       processed, last_inv, last_done, resolved>>
        /\ UNCHANGED <<cvars, hvars, xvars>>

\* add(data), in behaviours where callers may be cancelled
AddCancellable == nadded < MaxItemsWithCancel /\ Add

\* the batcher with callers that may be cancelled
BNextWithCancel ==
    \/ AddCancellable
    \/ TimerFire
    \/ RunTask
    \/ Finish
    \/ Tick
    \/ CancelCaller

BNext ==
    \/ Add
    \/ TimerFire
    \/ RunTask
    \/ Finish
    \/ Tick

(***************************************************************************)
(* CircuitBreaker, driven by VQAService.answer_question on worker threads  *)
(***************************************************************************)
Threads == 1..NumThreads

\* stop_after_attempt(3) on _call_gemini_api
MaxAttempts == 3

\* variant: the HALF_OPEN check takes a probe slot itself
can_execute_half_open_counting(b) ==
    IF b.half_open_calls < b.half_open_max_calls
    THEN [ret |-> TRUE, cb |-> [b EXCEPT !.half_open_calls = @ + 1]]
    ELSE [ret |-> FALSE, cb |-> b]

\* can_execute, lines 71-72: the HALF_OPEN branch
can_execute_half_open(b) ==
    [ret |-> b.half_open_calls < b.half_open_max_calls, cb |-> b]

\* variant: the recovery test compares with `>=`
can_execute_early(b, t) ==
    IF b.state = "closed" THEN [ret |-> TRUE, cb |-> b]
    ELSE IF b.state = "open"
         THEN IF t - b.last_failure_time >= recovery_timeout
              THEN [ret |-> TRUE,
                    cb |-> [b EXCEPT !.state = "half_open", !.half_open_calls = 0]]
              ELSE [ret |-> FALSE, cb |-> b]
    ELSE IF b.state = "half_open"
         THEN can_execute_half_open(b)
    ELSE [ret |-> FALSE, cb |-> b]

\* can_execute, lines 56-74: the value returned and the breaker afterwards
can_execute(b, t) ==
    IF b.state = "closed" THEN [ret |-> TRUE, cb |-> b]
    ELSE IF b.state = "open"
         THEN IF t - b.last_failure_time > recovery_timeout
              THEN [ret |-> TRUE,
                    cb |-> [b EXCEPT !.state = "half_open", !.half_open_calls = 0]]
              ELSE [ret |-> FALSE, cb |-> b]
    ELSE IF b.state = "half_open"
         THEN can_execute_half_open(b)
    ELSE [ret |-> FALSE, cb |-> b]

\* variant: a success closes the breaker whatever its state
record_success_any(b) == [b EXCEPT !.state = "closed", !.failure_count = 0]

\* record_success, lines 76-83
record_success(b) ==
    IF b.state = "half_open"
    THEN [b EXCEPT !.state = "closed", !.failure_count = 0]
    ELSE IF b.state = "closed" THEN [b EXCEPT !.failure_count = 0]
    ELSE b

\* record_failure, lines 85-101
record_failure(b, t) ==
    LET b1 == [b EXCEPT !.failure_count = @ + 1, !.last_failure_time = t]
    IN IF b.state = "half_open" THEN [b1 EXCEPT !.state = "open"]
       ELSE IF b1.failure_count >= failure_threshold
            THEN [b1 EXCEPT !.state = "open"]
       ELSE b1

\* variant: the handler has no clause for CircuitBreakerOpenError and records
\* a failure for it as well
HandlerRecords_Open(e) == e \in {"rate", "open"}

\* answer_question, lines 120-124: the generic handler records a failure for
\* rate-limit errors; CircuitBreakerOpenError is re-raised by the clause before
HandlerRecords(e) == e = "rate"

\* answer_question is called on a worker thread (answer_question_async)
AnswerQuestion(t) ==
    /\ pc[t] = "idle"
    /\ requests < MaxRequests
    /\ requests' = requests + 1
    /\ pc' = [pc EXCEPT ![t] = "check"]
    /\ attempt' = [attempt EXCEPT ![t] = 1]
    /\ UNCHANGED <<cb, clock, err, probe, probes, last_call>>
    /\ UNCHANGED <<bvars, hvars, xvars>>

\* execute, lines 105-109: the admission check
ExecCheck(t) ==
    LET r == can_execute(cb, clock)
    IN /\ pc[t] = "check"
       /\ cb' = r.cb
       /\ IF r.ret
          THEN /\ pc' = [pc EXCEPT ![t] = "admitted"]
               /\ probe' = [probe EXCEPT ![t] = (r.cb.state = "half_open")]
               /\ UNCHANGED err
          ELSE /\ pc' = [pc EXCEPT ![t] = "raised"]
               /\ err' = [err EXCEPT ![t] = "open"]
               /\ UNCHANGED probe
       /\ probes' = IF cb.state = "open" /\ r.cb.state = "half_open" THEN 0 ELSE probes
       /\ last_call' = [op |-> "can_execute", state |-> cb.state]
       /\ UNCHANGED <<clock, attempt, requests>>
       /\ UNCHANGED <<bvars, hvars, xvars>>

\* execute, lines 111-115: count the probe, then invoke func
ExecCount(t) ==
    /\ pc[t] = "admitted"
    /\ cb' = IF cb.state = "half_open"
             THEN [cb EXCEPT !.half_open_calls = @ + 1] ELSE cb
    /\ probes' = IF probe[t] THEN probes + 1 ELSE probes
    /\ pc' = [pc EXCEPT ![t] = "call"]
    /\ UNCHANGED <<clock, attempt, err, probe, requests, last_call>>
    /\ UNCHANGED <<bvars, hvars, xvars>>

\* execute, lines 115-117: func returned
ExecReturn(t) ==
    /\ pc[t] = "call"
    /\ cb' = record_success(cb)
    /\ pc' = [pc EXCEPT ![t] = "idle"]
    /\ attempt' = [attempt EXCEPT ![t] = 0]
    /\ probe' = [probe EXCEPT ![t] = FALSE]
    /\ last_call' = [op |-> "record_success", state |-> cb.state]
    /\ UNCHANGED <<clock, err, probes, requests>>
    /\ UNCHANGED <<bvars, hvars, xvars>>

\* execute, lines 118-120: func raised
ExecRaise(t, e) ==
    /\ pc[t] = "call"
    /\ cb' = record_failure(cb, clock)
    /\ pc' = [pc EXCEPT ![t] = "raised"]
    /\ err' = [err EXCEPT ![t] = e]
    /\ probe' = [probe EXCEPT ![t] = FALSE]
    /\ last_call' = [op |-> "record_failure", state |-> cb.state]
    /\ UNCHANGED <<clock, attempt, probes, requests>>
    /\ UNCHANGED <<bvars, hvars, xvars>>

\* @retry on _call_gemini_api, lines 83-88: any exception is retried until the
\* third attempt, then re-raised into answer_question
Retry(t) ==
    /\ pc[t] = "raised"
    /\ IF attempt[t] < MaxAttempts
       THEN /\ pc' = [pc EXCEPT ![t] = "check"]
            /\ attempt' = [attempt EXCEPT ![t] = @ + 1]
            /\ err' = [err EXCEPT ![t] = "none"]
       ELSE /\ pc' = [pc EXCEPT ![t] = "handler"]
            /\ UNCHANGED <<attempt, err>>
    /\ UNCHANGED <<cb, clock, probe, probes, requests, last_call>>
    /\ UNCHANGED <<bvars, hvars, xvars>>

\* answer_question, lines 117-125: the except clauses
Handler(t) ==
    /\ pc[t] = "handler"
    /\ cb' = IF HandlerRecords(err[t]) THEN record_failure(cb, clock) ELSE cb
    /\ pc' = [pc EXCEPT ![t] = "idle"]
    /\ attempt' = [attempt EXCEPT ![t] = 0]
    /\ err' = [err EXCEPT ![t] = "none"]
    /\ last_call' = IF HandlerRecords(err[t])
                    THEN [op |-> "record_failure", state |-> cb.state]
                    ELSE last_call
    /\ UNCHANGED <<clock, probe, probes, requests>>
    /\ UNCHANGED <<bvars, hvars, xvars>>

\* time.time() advances
ClockTick ==
    /\ clock < recovery_timeout + 1 + MaxClock
    /\ clock' = clock + 1
    /\ UNCHANGED <<cb, pc, attempt, err, probe, probes, requests, last_call>>
    /\ UNCHANGED <<bvars, hvars, xvars>>

\* CircuitBreaker.__init__, lines 46-54; time.time() is far past 0.0
CInitWith(m) ==
    /\ cb = [state |-> "closed", failure_count |-> 0, last_failure_time |-> 0,
             half_open_calls |-> 0, half_open_max_calls |-> m]
    /\ clock = recovery_timeout + 1
    /\ pc = [t \in Threads |-> "idle"]
    /\ attempt = [t \in Threads |-> 0]
    /\ err = [t \in Threads |-> "none"]
    /\ probe = [t \in Threads |-> FALSE]
    /\ probes = 0
    /\ requests = 0
    /\ last_call = [op |-> "none", state |-> "closed"]

CNext ==
    \/ \E t \in Threads : AnswerQuestion(t)
    \/ \E t \in Threads : ExecCheck(t)
    \/ \E t \in Threads : ExecCount(t)
    \/ \E t \in Threads : ExecReturn(t)
    \/ \E t \in Threads : \E e \in {"error", "rate"} : ExecRaise(t, e)
    \/ \E t \in Threads : Retry(t)
    \/ \E t \in Threads : Handler(t)
    \/ ClockTick

(***************************************************************************)
(* ServiceHealth                                                           *)
(***************************************************************************)
\* variant: a success counts the request but keeps the failure streak
health_record_success_sticky(h, t) ==
    [h EXCEPT !.last_success_time = t,
              !.total_requests = @ + 1]

\* ServiceHealth.record_success, lines 44-51
health_record_success(h, t) ==
    [h EXCEPT !.consecutive_failures = 0,
              !.last_success_time = t,
              !.total_requests = @ + 1,
              !.status = "healthy"]

\* variant: the degraded threshold is rounded up
DegradedAt_Ceil(threshold) == (threshold + 1) \div 2

\* record_failure, line 66: `self.failure_threshold // 2`
DegradedAt(threshold) == threshold \div 2

\* variant: a failure is not counted in total_failures
health_record_failure_uncounted(h, t) ==
    LET h1 == [h EXCEPT !.consecutive_failures = @ + 1,
                        !.last_failure_time = t,
                        !.total_requests = @ + 1]
    IN IF h1.consecutive_failures >= h1.failure_threshold
       THEN [h1 EXCEPT !.status = "unavailable"]
       ELSE IF h1.consecutive_failures >= DegradedAt(h1.failure_threshold)
            THEN [h1 EXCEPT !.status = "degraded"]
       ELSE h1

\* ServiceHealth.record_failure, lines 53-68
health_record_failure(h, t) ==
    LET h1 == [h EXCEPT !.consecutive_failures = @ + 1,
                        !.last_failure_time = t,
                        !.total_requests = @ + 1,
                        !.total_failures = @ + 1]
    IN IF h1.consecutive_failures >= h1.failure_threshold
       THEN [h1 EXCEPT !.status = "unavailable"]
       ELSE IF h1.consecutive_failures >= DegradedAt(h1.failure_threshold)
            THEN [h1 EXCEPT !.status = "degraded"]
       ELSE h1

\* variant: the timeout must have been exceeded, not merely reached
should_attempt_recovery_strict(h, t) ==
    IF h.status = "healthy" THEN TRUE
    ELSE t - h.last_failure_time > h.recovery_timeout

\* ServiceHealth.should_attempt_recovery, lines 70-75
should_attempt_recovery(h, t) ==
    IF h.status = "healthy" THEN TRUE
    ELSE t - h.last_failure_time >= h.recovery_timeout

\* variant: the recovery test is read the wrong way round
should_use_fallback_inverted(h, t) ==
    IF h.status = "unavailable"
    THEN IF should_attempt_recovery(h, t) THEN TRUE ELSE FALSE
    ELSE FALSE

\* GracefulDegradation.should_use_fallback, lines 129-137
should_use_fallback(h, t) ==
    IF h.status = "unavailable"
    THEN IF should_attempt_recovery(h, t) THEN FALSE ELSE TRUE
    ELSE FALSE

\* ServiceHealth.get_stats, lines 77-89 (without the derived failure_rate):
\* the dictionary returned and the health record afterwards
get_stats(h) ==
    [ret |-> [status |-> h.status, consecutive_failures |-> h.consecutive_failures,
              total_requests |-> h.total_requests,
              total_failures |-> h.total_failures],
     health |-> h]

NoHealthCall == [op |-> "none", ret |-> FALSE, succ |-> 0, fail |-> 0, served |-> 0]

HealthRecordSuccess ==
    /\ health.total_requests < MaxHealthCalls
    /\ health' = health_record_success(health, clock)
    /\ hlog' = [op |-> "record_success", ret |-> FALSE,
                succ |-> hlog.succ + 1, fail |-> hlog.fail, served |-> 0]
    /\ UNCHANGED clock
    /\ UNCHANGED <<bvars, cb, tvars, xvars>>

HealthRecordFailure ==
    /\ health.total_requests < MaxHealthCalls
    /\ health' = health_record_failure(health, clock)
    /\ hlog' = [op |-> "record_failure", ret |-> FALSE,
                succ |-> hlog.succ, fail |-> hlog.fail + 1, served |-> 0]
    /\ UNCHANGED clock
    /\ UNCHANGED <<bvars, cb, tvars, xvars>>

\* degradation.should_use_fallback(service) is called on a registered service
\* (get_service_health, lines 107-119, returns the record it holds, and
\* nothing is assigned); an answer of True has the caller serve the fallback
\* (routers/detection.py, lines 62-65)
HealthShouldUseFallback ==
    /\ LET ret == should_use_fallback(health, clock)
       IN /\ ret => hlog.served < MaxFallbacks
          /\ health' = health
          /\ hlog' = [hlog EXCEPT !.op = "should_use_fallback",
                                  !.ret = ret,
                                  !.served = IF ret THEN @ + 1 ELSE @]
    /\ UNCHANGED clock
    /\ UNCHANGED <<bvars, cb, tvars, xvars>>

\* get_stats() is called (GracefulDegradation.get_all_status, lines 139-141)
HealthGetStats ==
    /\ health' = get_stats(health).health
    /\ hlog' = [hlog EXCEPT !.op = "get_stats", !.ret = FALSE]
    /\ UNCHANGED clock
    /\ UNCHANGED <<bvars, cb, tvars, xvars>>

HealthTick ==
    /\ clock < recovery_timeout + 1 + MaxClock
    /\ clock' = clock + 1
    /\ UNCHANGED <<health, hlog>>
    /\ UNCHANGED <<bvars, cb, tvars, xvars>>

\* the ServiceHealth dataclass defaults, lines 34-42, with a failure_threshold
HInitWith(threshold) ==
    /\ health = [status |-> "healthy", consecutive_failures |-> 0,
              last_failure_time |-> 0, last_success_time |-> 0,
              failure_threshold |-> threshold,
              recovery_timeout |-> HealthRecoveryTimeout,
              total_requests |-> 0, total_failures |-> 0]
    /\ hlog = NoHealthCall

HNext ==
    \/ HealthRecordSuccess
    \/ HealthRecordFailure
    \/ HealthShouldUseFallback
    \/ HealthGetStats
    \/ HealthTick

(***************************************************************************)
(* Request-facing process: GracefulDegradation, the routers, the request   *)
(* middleware and the dispatch calls to the worker                         *)
(***************************************************************************)
Requests == 1..NumRequests

\* the endpoints that dispatch to the worker
SingleEndpoints == {"detection", "ocr", "transcription", "vqa"}
BatchEndpoints == {"detect_batch", "ocr_batch"}
Endpoints == SingleEndpoints \cup BatchEndpoints

\* AIClient.create_metadata, lines 82-102 (without extra pairs)
create_metadata(request_id) ==
    IF request_id # "" THEN <<<<"x-request-id", request_id>>>> ELSE <<>>

\* the metadata the routers attach to a stub call: the calls are made as
\* `stub.DetectObjects(grpc_request)`, without a metadata argument
CallMetadata(request_id) == <<>>

\* AIService._get_request_id, worker.py lines 54-57
get_request_id(metadata) ==
    IF \E k \in 1..Len(metadata) : metadata[k][1] = "x-request-id"
    THEN LET k == CHOOSE k \in 1..Len(metadata) : metadata[k][1] = "x-request-id"
         IN metadata[k][2]
    ELSE "-"

\* RequestIDMiddleware: the trace id of a request
RequestId(r) == IF r = 1 THEN "req-1" ELSE IF r = 2 THEN "req-2" ELSE "req-n"

\* the type the response schema of an endpoint declares for `data`
SchemaData(e) ==
    CASE e \in {"detection", "detect_batch"} -> "DetectionData"
      [] e \in {"ocr", "ocr_batch"} -> "OCRData"
      [] e = "transcription" -> "TranscriptionData"
      [] e = "vqa" -> "VQAData"

\* what the routers pass as `data` when they build the response for a worker
\* result or a cache hit; detection and detect_batch pass the list of detections
GenuineData(e) ==
    IF e \in {"detection", "detect_batch"} THEN "list" ELSE SchemaData(e)

\* what get_*_fallback passes as `data`, degradation.py lines 149-211
FallbackData(e) == SchemaData(e)

NoResponse == [http |-> 0, code |-> "", status |-> "", is_fallback |-> "absent",
               data |-> "absent"]

\* an error body: no data and no fallback marker
ErrorResponse(http, code) ==
    [http |-> http, code |-> code, status |-> "error", is_fallback |-> "absent",
     data |-> "absent"]

\* pydantic rejects the arguments of a response model
ValidationError == ErrorResponse(0, "ValidationError")

\* the pydantic response model of endpoint e built with `data` of kind d:
\* ValidationError unless d is the declared type
BuildResponse(e, status, d, fallback) ==
    IF d = SchemaData(e)
    THEN [http |-> 200, code |-> "", status |-> status,
          is_fallback |-> IF fallback THEN "true" ELSE "false", data |-> d]
    ELSE ValidationError

\* ModelNotReadyException through ai_service_exception_handler
ModelNotReady == ErrorResponse(503, "MODEL_NOT_READY")
\* an exception no handler catches
InternalError == ErrorResponse(500, "")
\* TimeoutMiddleware.dispatch, lines 67-85
RequestTimeoutResponse == ErrorResponse(504, "REQUEST_TIMEOUT")
\* one entry of a batch response: BatchDetectionResult / BatchOCRResult
BatchError == [http |-> 200, code |-> "", status |-> "error",
               is_fallback |-> "absent", data |-> "absent"]

NewRequest ==
    [pc |-> "new", rid |-> "", got |-> "none", elapsed |-> 0, via |-> "none",
     cause |-> "none", probe |-> FALSE, nsucc |-> 0, nfail |-> 0,
     detached |-> FALSE, orphan |-> FALSE, response |-> NoResponse]

\* a request arrives and its handler runs up to the first suspension on the
\* worker: cache lookup, fallback decision, start of the stub call
\* (detection.py lines 41-79 and the same lines of the other routers;
\* batch.py lines 50-55 for one file of a batch endpoint)
Arrive(r) ==
    /\ req[r].pc = "new"
    /\ LET q == [req[r] EXCEPT !.rid = RequestId(r)]
           hit == BuildResponse(endpoint, "success", GenuineData(endpoint), FALSE)
       IN IF endpoint \in BatchEndpoints
          THEN /\ req' = [req EXCEPT ![r] = [q EXCEPT !.pc = "call",
                                                      !.via = "dispatch"]]
               /\ UNCHANGED let_through
          ELSE IF cache
          THEN /\ req' = [req EXCEPT ![r] =
                     [q EXCEPT !.pc = "done", !.via = "cache",
                               !.response = IF hit = ValidationError
                                            THEN InternalError ELSE hit]]
               /\ UNCHANGED let_through
          ELSE IF should_use_fallback(health, clock)
          THEN /\ req' = [req EXCEPT ![r] =
                     [q EXCEPT !.pc = "done", !.via = "fallback",
                               !.response = BuildResponse(endpoint, "degraded",
                                                FallbackData(endpoint), TRUE)]]
               /\ UNCHANGED let_through
          ELSE /\ req' = [req EXCEPT ![r] =
                     [q EXCEPT !.pc = "call", !.via = "dispatch",
                               !.probe = (health.status = "unavailable")]]
               /\ let_through' = IF health.status = "unavailable"
                                 THEN let_through + 1 ELSE let_through
    /\ UNCHANGED <<endpoint, worker, cache, health, clock>>
    /\ UNCHANGED <<bvars, cb, tvars, hlog, pvars, wvars, lvars, gvars, avars>>

\* what the service call inside the worker can end with: a result, a
\* computation error, or (VQA) the Gemini breaker rejecting the call
WorkerOutcomes(e) ==
    IF e = "vqa" THEN {"return", "error", "open"} ELSE {"return", "error"}

\* the router's continuation after the stub call on a single-item endpoint,
\* detection.py lines 81-117: [health, response, nsucc, nfail, cache]
AfterCall(e, h, t, success) ==
    LET resp == BuildResponse(e, "success", GenuineData(e), FALSE)
    IN IF ~success
       THEN [health |-> health_record_failure(h, t), response |-> ModelNotReady,
             nsucc |-> 0, nfail |-> 1, cached |-> FALSE]
       ELSE IF resp = ValidationError
       THEN [health |-> health_record_failure(health_record_success(h, t), t),
             response |-> ModelNotReady, nsucc |-> 1, nfail |-> 1, cached |-> TRUE]
       ELSE [health |-> health_record_success(h, t), response |-> resp,
             nsucc |-> 1, nfail |-> 0, cached |-> TRUE]

\* the continuation of process_single_detection / process_single_ocr,
\* batch.py lines 57-88: no health bookkeeping, errors become result entries
AfterBatchCall(e, h, success) ==
    LET resp == BuildResponse(e, "success", GenuineData(e), FALSE)
    IN [health |-> h,
        response |-> IF success /\ resp # ValidationError THEN resp ELSE BatchError,
        nsucc |-> 0, nfail |-> 0, cached |-> FALSE]

\* the handler of request r resumes with the end of its stub call
Resume(r, success, why, got) ==
    LET a == IF endpoint \in BatchEndpoints
             THEN AfterBatchCall(endpoint, health, success)
             ELSE AfterCall(endpoint, health, clock, success)
        q == req[r]
    IN /\ health' = a.health
       /\ cache' = (cache \/ a.cached)
       /\ let_through' = IF a.nsucc + a.nfail > 0 THEN 0 ELSE let_through
       /\ req' = [req EXCEPT ![r] =
              [q EXCEPT !.pc = "done", !.got = got,
                        !.nsucc = a.nsucc, !.nfail = a.nfail,
                        !.cause = IF q.detached THEN q.cause ELSE why,
                        !.orphan = IF q.detached THEN q.orphan
                                   ELSE worker = "dead",
                        !.response = IF q.detached THEN q.response
                                     ELSE a.response]]

\* the worker serves the call of request r (worker.py lines 59-171: the id is
\* read from the call metadata, every exception becomes success=False) and
\* the router resumes with the reply
Reply(r, outcome) ==
    /\ worker = "alive"
    /\ req[r].pc = "call"
    /\ Resume(r, outcome = "return",
              IF outcome = "return" THEN "success" ELSE outcome,
              get_request_id(CallMetadata(req[r].rid)))
    /\ UNCHANGED <<endpoint, worker, clock>>
    /\ UNCHANGED <<bvars, cb, tvars, hlog, pvars, wvars, lvars, gvars, avars>>

WorkerReply ==
    \E r \in Requests : \E outcome \in WorkerOutcomes(endpoint) : Reply(r, outcome)

\* the call of request r fails because the worker process is gone
RpcError(r) ==
    /\ worker = "dead"
    /\ req[r].pc = "call"
    /\ Resume(r, FALSE, "rpc", req[r].got)
    /\ UNCHANGED <<endpoint, worker, clock>>
    /\ UNCHANGED <<bvars, cb, tvars, hlog, pvars, wvars, lvars, gvars, avars>>

\* TimeoutMiddleware.dispatch, lines 60-85: wait_for gives up after
\* request_timeout and answers 504; the handler is cancelled at its await
\* (CancelledError passes `except Exception`), or - depending on how the
\* middleware stack runs the handler - keeps running without a client
Timeout(r, cancelled) ==
    /\ req[r].pc = "call"
    /\ ~req[r].detached
    /\ req[r].elapsed >= request_timeout
    /\ req' = [req EXCEPT ![r] =
           [@ EXCEPT !.pc = IF cancelled THEN "done" ELSE "call",
                     !.detached = ~cancelled,
                     !.cause = "timeout",
                     !.orphan = (worker = "dead"),
                     !.response = RequestTimeoutResponse]]
    /\ UNCHANGED <<endpoint, worker, cache, let_through, health, clock>>
    /\ UNCHANGED <<bvars, cb, tvars, hlog, pvars, wvars, lvars, gvars, avars>>

\* the worker process dies
WorkerDies ==
    /\ worker = "alive"
    /\ worker' = "dead"
    /\ UNCHANGED <<endpoint, cache, req, let_through, health, clock>>
    /\ UNCHANGED <<bvars, cb, tvars, hlog, pvars, wvars, lvars, gvars, avars>>

\* time passes; a due request timeout fires before time passes again
DispatchTick ==
    /\ clock < recovery_timeout + 1 + DispatchHorizon
    /\ \A r \in Requests :
           (req[r].pc = "call" /\ ~req[r].detached)
               => req[r].elapsed < request_timeout
    /\ clock' = clock + 1
    /\ req' = [r \in Requests |->
                  IF req[r].pc = "call" /\ ~req[r].detached
                  THEN [req[r] EXCEPT !.elapsed = @ + 1]
                  ELSE req[r]]
    /\ UNCHANGED <<endpoint, worker, cache, let_through, health>>
    /\ UNCHANGED <<bvars, cb, tvars, hlog, pvars, wvars, lvars, gvars, avars>>

\* the default failure_threshold of ServiceHealth, degradation.py line 39
DefaultFailureThreshold == 3

\* the health record after k consecutive failures recorded at time t
RECURSIVE Failed(_, _)
Failed(k, t) ==
    IF k = 0
    THEN [status |-> "healthy", consecutive_failures |-> 0,
          last_failure_time |-> 0, last_success_time |-> 0,
          failure_threshold |-> DefaultFailureThreshold,
          recovery_timeout |-> HealthRecoveryTimeout,
          total_requests |-> 0, total_failures |-> 0]
    ELSE health_record_failure(Failed(k - 1, t), t)

\* the request-facing process before any request, serving endpoint e
DInitWith(e, c) ==
    /\ endpoint = e
    /\ worker = "alive"
    /\ cache = c
    /\ req = [r \in Requests |-> NewRequest]
    /\ let_through = 0

DNext ==
    \/ \E r \in Requests : Arrive(r)
    \/ WorkerReply
    \/ \E r \in Requests : RpcError(r)
    \/ \E r \in Requests : \E cancelled \in BOOLEAN : Timeout(r, cancelled)
    \/ WorkerDies
    \/ DispatchTick

(***************************************************************************)
(* MemoryPool                                                              *)
(***************************************************************************)
PoolThreads == 1..NumPoolThreads

\* a BytesIO buffer: stream position and length of its content
EmptyBuffer == [pos |-> 0, len |-> 0]

\* buffer.write(data) of a non-empty payload at the current position
Write(b) == [pos |-> b.pos + 1, len |-> IF b.pos + 1 > b.len THEN b.pos + 1 ELSE b.len]

\* variant: the reset rewinds the buffer but keeps its content
ResetBuffer_SeekOnly(b) == [pos |-> 0, len |-> b.len]

\* buffer.seek(0); buffer.truncate(0), lines 111-112
ResetBuffer(b) == [pos |-> 0, len |-> 0]

\* variant: the index is read from the free-list but left on it
Pop_Keep(av) == av

\* the free-list after self._available.pop(), line 93
Pop(av) == SubSeq(av, 1, Len(av) - 1)

NoUser == [pc |-> "idle", idx |-> -1, is_pooled |-> TRUE, tmp |-> EmptyBuffer,
           handed |-> EmptyBuffer, exit |-> "none", returned |-> 0]

\* the buffer thread t works on
BufferOf(t) == IF user[t].is_pooled THEN pool[user[t].idx] ELSE user[t].tmp

\* acquire(), lines 87-108: the locked section up to the yield
Acquire(t) ==
    /\ user[t].pc = "idle"
    /\ total_acquired + total_fallbacks < MaxAcquires
    /\ IF available # <<>>
       THEN LET idx == available[Len(available)]
            IN /\ available' = Pop(available)
               /\ total_acquired' = total_acquired + 1
               /\ user' = [user EXCEPT ![t] =
                      [NoUser EXCEPT !.pc = "body", !.idx = idx,
                                     !.handed = pool[idx]]]
               /\ UNCHANGED total_fallbacks
       ELSE /\ total_fallbacks' = total_fallbacks + 1
            /\ user' = [user EXCEPT ![t] =
                   [NoUser EXCEPT !.pc = "body", !.is_pooled = FALSE]]
            /\ UNCHANGED <<available, total_acquired>>
    /\ UNCHANGED <<pool_size, pool>>
    /\ UNCHANGED <<bvars, cvars, hvars, dvars, wvars, lvars, gvars, avars>>

\* the body of the with block writes into its buffer
BodyWrite(t) ==
    /\ user[t].pc = "body"
    /\ BufferOf(t).len < 2
    /\ IF user[t].is_pooled
       THEN /\ pool' = [pool EXCEPT ![user[t].idx] = Write(@)]
            /\ UNCHANGED user
       ELSE /\ user' = [user EXCEPT ![t].tmp = Write(@)]
            /\ UNCHANGED pool
    /\ UNCHANGED <<pool_size, available, total_acquired, total_fallbacks>>
    /\ UNCHANGED <<bvars, cvars, hvars, dvars, wvars, lvars, gvars, avars>>

\* the body ends, normally or with an exception; the finally block resets the
\* buffer (lines 109-112), outside the lock
BodyExit(t, how) ==
    /\ user[t].pc = "body"
    /\ IF user[t].is_pooled
       THEN /\ pool' = [pool EXCEPT ![user[t].idx] = ResetBuffer(@)]
            /\ user' = [user EXCEPT ![t].pc = "release", ![t].exit = how]
       ELSE /\ user' = [user EXCEPT ![t].pc = "release", ![t].exit = how,
                                    ![t].tmp = ResetBuffer(@)]
            /\ UNCHANGED pool
    /\ UNCHANGED <<pool_size, available, total_acquired, total_fallbacks>>
    /\ UNCHANGED <<bvars, cvars, hvars, dvars, wvars, lvars, gvars, avars>>

\* variant: every buffer's index goes back to the free-list
ReturnsToPool_Always(u) == TRUE

\* acquire, line 115: `if is_pooled and idx is not None`
ReturnsToPool(u) == u.is_pooled /\ u.idx # -1

\* the end of the finally block, lines 114-117: a pooled index goes back to
\* the free-list under the lock, a temporary buffer is dropped
Release(t) ==
    /\ user[t].pc = "release"
    /\ IF ReturnsToPool(user[t])
       THEN /\ available' = Append(available, user[t].idx)
            /\ user' = [user EXCEPT ![t].pc = "idle", ![t].returned = @ + 1]
       ELSE /\ user' = [user EXCEPT ![t].pc = "idle"]
            /\ UNCHANGED available
    /\ UNCHANGED <<pool_size, pool, total_acquired, total_fallbacks>>
    /\ UNCHANGED <<bvars, cvars, hvars, dvars, wvars, lvars, gvars, avars>>

\* variant: resize adopts any size that differs from the current one
Grows_Any(new_pool_size, size) == new_pool_size # size

\* resize, line 146: `if new_pool_size > self.pool_size`
Grows(new_pool_size, size) == new_pool_size > size

\* the body of resize, lines 145-155, on the pool p = [pool_size, pool,
\* available]: the pool after resize(new_pool_size)
resize(p, new_pool_size) ==
    IF Grows(new_pool_size, p.pool_size)
    THEN [pool_size |-> new_pool_size,
          pool |-> [i \in 0..(MaxPoolSize - 1) |->
                       IF i >= p.pool_size /\ i < new_pool_size
                       THEN EmptyBuffer ELSE p.pool[i]],
          available |->
              IF new_pool_size > p.pool_size
              THEN p.available \o
                       [k \in 1..(new_pool_size - p.pool_size) |-> p.pool_size + k - 1]
              ELSE p.available]
    ELSE p

\* the pool as resize sees it
ThePool == [pool_size |-> pool_size, pool |-> pool, available |-> available]

\* resize(new_pool_size), lines 138-160
Resize(new_pool_size) ==
    /\ pool_size' = resize(ThePool, new_pool_size).pool_size
    /\ pool' = resize(ThePool, new_pool_size).pool
    /\ available' = resize(ThePool, new_pool_size).available
    /\ UNCHANGED <<total_acquired, total_fallbacks, user>>
    /\ UNCHANGED <<bvars, cvars, hvars, dvars, wvars, lvars, gvars, avars>>

\* MemoryPool.__init__, lines 32-67
PInitWith(size) ==
    /\ pool_size = size
    /\ pool = [i \in 0..(MaxPoolSize - 1) |-> EmptyBuffer]
    /\ available = [k \in 1..size |-> k - 1]
    /\ total_acquired = 0
    /\ total_fallbacks = 0
    /\ user = [t \in PoolThreads |-> NoUser]

PNext ==
    \/ \E t \in PoolThreads : Acquire(t)
    \/ \E t \in PoolThreads : BodyWrite(t)
    \/ \E t \in PoolThreads : \E how \in {"return", "raise"} : BodyExit(t, how)
    \/ \E t \in PoolThreads : Release(t)
    \/ \E n \in 1..MaxPoolSize : Resize(n)

(***************************************************************************)
(* Worker process lifecycle: lifespan() in main.py, serve() in worker.py   *)
(***************************************************************************)
\* _server.stop(grace=5.0), worker.py line 262, in seconds
grace == 5
\* grpc_process.join(timeout=5), main.py line 76, in seconds
join_timeout == 5

Alive == proc \in {"running", "draining", "cleanup"}

\* lifespan() before the yield, main.py lines 50-66, and serve() up to
\* `await _server.start()`, worker.py lines 192-250
StartWorker ==
    /\ parent = "boot"
    /\ parent' = "serving"
    /\ proc' = "running"
    /\ spawns' = spawns + 1
    /\ UNCHANGED <<sigterm, inflight, grace_left, join_left, served, cleaned>>
    /\ UNCHANGED <<bvars, cvars, hvars, dvars, pvars, lvars, gvars, avars>>

\* the server accepts a call
CallBegin ==
    /\ proc = "running"
    /\ served + inflight < MaxCalls
    /\ inflight' = inflight + 1
    /\ UNCHANGED <<parent, proc, sigterm, grace_left, join_left, spawns, served,
                   cleaned>>
    /\ UNCHANGED <<bvars, cvars, hvars, dvars, pvars, lvars, gvars, avars>>

\* a call in progress finishes
CallEnd ==
    /\ proc \in {"running", "draining"}
    /\ inflight > 0
    /\ inflight' = inflight - 1
    /\ served' = served + 1
    /\ UNCHANGED <<parent, proc, sigterm, grace_left, join_left, spawns, cleaned>>
    /\ UNCHANGED <<bvars, cvars, hvars, dvars, pvars, lvars, gvars, avars>>

\* the worker process dies on its own
WorkerExits ==
    /\ proc = "running"
    /\ proc' = "exited"
    /\ inflight' = 0
    /\ UNCHANGED <<parent, sigterm, grace_left, join_left, spawns, served, cleaned>>
    /\ UNCHANGED <<bvars, cvars, hvars, dvars, pvars, lvars, gvars, avars>>

\* lifespan() after the yield, main.py lines 70-75: terminate() and the start
\* of join(timeout=5) if the process is alive
Shutdown ==
    /\ parent = "serving"
    /\ IF Alive
       THEN /\ parent' = "joining"
            /\ sigterm' = TRUE
            /\ join_left' = join_timeout
       ELSE /\ parent' = "stopped"
            /\ UNCHANGED <<sigterm, join_left>>
    /\ UNCHANGED <<proc, inflight, grace_left, spawns, served, cleaned>>
    /\ UNCHANGED <<bvars, cvars, hvars, dvars, pvars, lvars, gvars, avars>>

\* handle_shutdown_signal sets _shutdown_event and serve() goes on to
\* `_server.stop(grace=5.0)`, worker.py lines 256-262 and 270-274
SeeSignal ==
    /\ sigterm
    /\ proc = "running"
    /\ sigterm' = FALSE
    /\ proc' = "draining"
    /\ grace_left' = grace
    /\ UNCHANGED <<parent, inflight, join_left, spawns, served, cleaned>>
    /\ UNCHANGED <<bvars, cvars, hvars, dvars, pvars, lvars, gvars, avars>>

\* _server.stop returns: no call is in progress, or the grace period is over
\* and the calls still in progress are aborted
StopReturns ==
    /\ proc = "draining"
    /\ inflight = 0 \/ grace_left = 0
    /\ proc' = "cleanup"
    /\ inflight' = 0
    /\ UNCHANGED <<parent, sigterm, grace_left, join_left, spawns, served, cleaned>>
    /\ UNCHANGED <<bvars, cvars, hvars, dvars, pvars, lvars, gvars, avars>>

\* cleanup_temp_files() and the end of serve() / run_server(), worker.py
\* lines 264-267 and 292-294
CleanupAndExit ==
    /\ proc = "cleanup"
    /\ cleaned' = "after_stop"
    /\ proc' = "exited"
    /\ UNCHANGED <<parent, sigterm, inflight, grace_left, join_left, spawns, served>>
    /\ UNCHANGED <<bvars, cvars, hvars, dvars, pvars, lvars, gvars, avars>>

\* join(timeout=5) returns, main.py lines 76-77: the process has exited or the
\* timeout is over; lifespan() logs and ends
JoinReturns ==
    /\ parent = "joining"
    /\ proc = "exited" \/ join_left = 0
    /\ parent' = "stopped"
    /\ UNCHANGED <<proc, sigterm, inflight, grace_left, join_left, spawns, served,
                   cleaned>>
    /\ UNCHANGED <<bvars, cvars, hvars, dvars, pvars, lvars, gvars, avars>>

\* one second passes for the join timeout and the grace period
LifeTick ==
    /\ \/ parent = "joining" /\ join_left > 0
       \/ proc = "draining" /\ grace_left > 0
    /\ ~(parent = "joining" /\ join_left = 0)
    /\ ~(proc = "draining" /\ grace_left = 0)
    /\ join_left' = IF parent = "joining" THEN join_left - 1 ELSE join_left
    /\ grace_left' = IF proc = "draining" THEN grace_left - 1 ELSE grace_left
    /\ UNCHANGED <<parent, proc, sigterm, inflight, spawns, served, cleaned>>
    /\ UNCHANGED <<bvars, cvars, hvars, dvars, pvars, lvars, gvars, avars>>

\* before lifespan() starts: `grpc_process = None`, main.py line 84
WInit ==
    /\ parent = "boot"
    /\ proc = "none"
    /\ sigterm = FALSE
    /\ inflight = 0
    /\ grace_left = 0
    /\ join_left = 0
    /\ spawns = 0
    /\ served = 0
    /\ cleaned = "no"

WNext ==
    \/ StartWorker
    \/ CallBegin
    \/ CallEnd
    \/ WorkerExits
    \/ Shutdown
    \/ SeeSignal
    \/ StopReturns
    \/ CleanupAndExit
    \/ JoinReturns
    \/ LifeTick

(***************************************************************************)
(* The locks: DynamicBatcher._lock (asyncio.Lock) and MemoryPool._lock     *)
(* (threading.Lock), and the code paths that take them                     *)
(***************************************************************************)
Locks == {"queue", "pool"}

\* the statements of a code path: taking a lock, giving it back, statements
\* that run without suspension, and a suspension point (await, yield)
Acq(l) == [op |-> "acquire", lock |-> l, what |-> ""]
Rel(l) == [op |-> "release", lock |-> l, what |-> ""]
Work(w) == [op |-> "work", lock |-> "", what |-> w]
Susp(w) == [op |-> "suspend", lock |-> "", what |-> w]

\* DynamicBatcher.add, lines 92-112
AddCode ==
    << Work("item"), Acq("queue"), Work("enqueue"), Rel("queue"), Work("log"),
       Susp("future") >>

\* variant: the lock is released only after process_fn was awaited
ProcessBatchCode_LockedAwait ==
    { << Acq("queue"), Work("check"), Rel("queue") >>,
      << Acq("queue"), Work("dequeue"), Work("log"), Susp("process_fn"),
         Work("distribute"), Work("finally"), Rel("queue") >> }

\* DynamicBatcher._process_batch, lines 119-180: the early return of line 123
\* and the flush
ProcessBatchCode ==
    { << Acq("queue"), Work("check"), Rel("queue") >>,
      << Acq("queue"), Work("dequeue"), Rel("queue"), Work("log"),
         Susp("process_fn"), Work("distribute"), Work("finally") >> }

\* DynamicBatcher._wait_and_process, lines 114-117
WaitAndProcessCode == { << Susp("sleep") >> \o c : c \in ProcessBatchCode }

\* MemoryPool.acquire, lines 87-117, with the caller's with block at the
\* yield: a pooled buffer and a temporary one
AcquireCode ==
    { << Work("locals"), Acq("pool"), Work("take_index"), Rel("pool"), Susp("yield"),
         Work("reset"), Acq("pool"), Work("return_index"), Rel("pool") >>,
      << Work("locals"), Acq("pool"), Work("fallback"), Rel("pool"), Susp("yield"),
         Work("reset") >> }

\* MemoryPool.get_stats, lines 119-136, and MemoryPool.resize, lines 138-160
StatsAndResizeCode ==
    { << Acq("pool"), Work("stats"), Rel("pool") >>,
      << Acq("pool"), Work("resize"), Rel("pool") >> }

\* the coroutines of the event loop and the threads using the pool
LockProcs ==
    ({"add"} \X (1..NumAdders)) \cup {<<"timer", 1>>}
        \cup ({"flush"} \X (1..NumFlushTasks)) \cup ({"pool"} \X (1..NumPoolUsers))

Nobody == <<"nobody", 0>>

\* the code paths a coroutine or thread can take
Paths(p) ==
    IF p[1] = "add" THEN {AddCode}
    ELSE IF p[1] = "timer" THEN WaitAndProcessCode
    ELSE IF p[1] = "flush" THEN ProcessBatchCode
    ELSE AcquireCode \cup StatsAndResizeCode

NotRunning == [path |-> <<>>, at |-> 0]

\* the statement p executes next
NextOp(p) == running[p].path[running[p].at]

\* p moves past the statement it is at; after the last one it is done
Advance(p) ==
    running' = [running EXCEPT ![p] =
        IF running[p].at = Len(running[p].path) THEN NotRunning
        ELSE [@ EXCEPT !.at = @ + 1]]

\* a coroutine or thread enters one of its code paths
LStart(p) ==
    /\ running[p] = NotRunning
    /\ \E c \in Paths(p) : running' = [running EXCEPT ![p] = [path |-> c, at |-> 1]]
    /\ UNCHANGED holder
    /\ UNCHANGED <<bvars, cvars, hvars, dvars, pvars, wvars, gvars, avars>>

\* `async with self._lock` / `with self._lock`: entered when the lock is free
LAcquire(p) ==
    /\ running[p] # NotRunning
    /\ NextOp(p).op = "acquire"
    /\ holder[NextOp(p).lock] = Nobody
    /\ holder' = [holder EXCEPT ![NextOp(p).lock] = p]
    /\ Advance(p)
    /\ UNCHANGED <<bvars, cvars, hvars, dvars, pvars, wvars, gvars, avars>>

\* the end of the with block
LRelease(p) ==
    /\ running[p] # NotRunning
    /\ NextOp(p).op = "release"
    /\ holder' = [holder EXCEPT ![NextOp(p).lock] = Nobody]
    /\ Advance(p)
    /\ UNCHANGED <<bvars, cvars, hvars, dvars, pvars, wvars, gvars, avars>>

\* statements without a suspension point
LWork(p) ==
    /\ running[p] # NotRunning
    /\ NextOp(p).op = "work"
    /\ Advance(p)
    /\ UNCHANGED holder
    /\ UNCHANGED <<bvars, cvars, hvars, dvars, pvars, wvars, gvars, avars>>

\* p, suspended at an await or at the yield, is resumed
LResume(p) ==
    /\ running[p] # NotRunning
    /\ NextOp(p).op = "suspend"
    /\ Advance(p)
    /\ UNCHANGED holder
    /\ UNCHANGED <<bvars, cvars, hvars, dvars, pvars, wvars, gvars, avars>>

LInit ==
    /\ running = [p \in LockProcs |-> NotRunning]
    /\ holder = [l \in Locks |-> Nobody]

LNext ==
    \/ \E p \in LockProcs : LStart(p)
    \/ \E p \in LockProcs : LAcquire(p)
    \/ \E p \in LockProcs : LRelease(p)
    \/ \E p \in LockProcs : LWork(p)
    \/ \E p \in LockProcs : LResume(p)

(***************************************************************************)
(* get_pool: the registry of named memory pools, called from the worker    *)
(* threads of the services' executors                                      *)
(***************************************************************************)
Getters == 1..NumGetters

\* the names the services ask for (image_buffer, audio_buffer)
PoolNames == {"image", "audio"}

\* a worker thread calls get_pool(name)
GetPoolCall(t, name) ==
    /\ getter[t].pc = "idle"
    /\ getter[t].calls < MaxGetPoolCalls
    /\ getter' = [getter EXCEPT ![t].pc = "test", ![t].name = name, ![t].new = 0]
    /\ UNCHANGED <<pools, made, given>>
    /\ UNCHANGED <<bvars, cvars, hvars, dvars, pvars, wvars, lvars, avars>>

\* `if name not in _pools:`, line 199
GetPoolTest(t) ==
    /\ getter[t].pc = "test"
    /\ getter' = [getter EXCEPT ![t].pc =
                     IF pools[getter[t].name] = 0 THEN "construct" ELSE "return"]
    /\ UNCHANGED <<pools, made, given>>
    /\ UNCHANGED <<bvars, cvars, hvars, dvars, pvars, wvars, lvars, avars>>

\* `MemoryPool(buffer_size=..., pool_size=..., name=name)`, lines 208-212:
\* the constructor allocates the buffers and logs
GetPoolConstruct(t) ==
    /\ getter[t].pc = "construct"
    /\ made' = [made EXCEPT ![getter[t].name] = @ + 1]
    /\ getter' = [getter EXCEPT ![t].pc = "store",
                                ![t].new = made[getter[t].name] + 1]
    /\ UNCHANGED <<pools, given>>
    /\ UNCHANGED <<bvars, cvars, hvars, dvars, pvars, wvars, lvars, avars>>

\* `_pools[name] = ...`, line 208
GetPoolStore(t) ==
    /\ getter[t].pc = "store"
    /\ pools' = [pools EXCEPT ![getter[t].name] = getter[t].new]
    /\ getter' = [getter EXCEPT ![t].pc = "return"]
    /\ UNCHANGED <<made, given>>
    /\ UNCHANGED <<bvars, cvars, hvars, dvars, pvars, wvars, lvars, avars>>

\* `return _pools[name]`, line 214
GetPoolReturn(t) ==
    /\ getter[t].pc = "return"
    /\ given' = [given EXCEPT ![getter[t].name] = @ \cup {pools[getter[t].name]}]
    /\ getter' = [getter EXCEPT ![t].pc = "idle", ![t].calls = @ + 1]
    /\ UNCHANGED <<pools, made>>
    /\ UNCHANGED <<bvars, cvars, hvars, dvars, pvars, wvars, lvars, avars>>

\* `_pools: dict[str, MemoryPool] = {}`, line 186
GInit ==
    /\ pools = [n \in PoolNames |-> 0]
    /\ made = [n \in PoolNames |-> 0]
    /\ getter = [t \in Getters |-> [pc |-> "idle", name |-> "image", new |-> 0,
                                    calls |-> 0]]
    /\ given = [n \in PoolNames |-> {}]

GNext ==
    \/ \E t \in Getters : \E name \in PoolNames : GetPoolCall(t, name)
    \/ \E t \in Getters : GetPoolTest(t)
    \/ \E t \in Getters : GetPoolConstruct(t)
    \/ \E t \in Getters : GetPoolStore(t)
    \/ \E t \in Getters : GetPoolReturn(t)

(***************************************************************************)
(* AIClient: the gRPC channel and stub of the request-facing process       *)
(***************************************************************************)
\* AIClient.is_connected, lines 68-70
is_connected == connected /\ channel # 0

\* AIClient.connect, lines 43-49
Connect ==
    /\ nchannels < MaxChannels
    /\ nchannels' = nchannels + 1
    /\ channel' = nchannels + 1
    /\ stub' = nchannels + 1
    /\ connected' = TRUE
    /\ UNCHANGED <<closed, handed, answered>>
    /\ UNCHANGED <<bvars, cvars, hvars, dvars, pvars, wvars, lvars, gvars>>

\* AIClient.close, lines 51-56; without a channel it does nothing, and it
\* assigns neither self.stub nor self.channel
Close ==
    /\ channel # 0
    /\ closed' = closed \cup {channel}
    /\ connected' = FALSE
    /\ UNCHANGED <<channel, stub, nchannels, handed, answered>>
    /\ UNCHANGED <<bvars, cvars, hvars, dvars, pvars, wvars, lvars, gvars>>

\* AIClient.get_stub, lines 58-66
GetStub ==
    /\ IF stub = 0
       THEN /\ nchannels < MaxChannels
            /\ nchannels' = nchannels + 1
            /\ channel' = nchannels + 1
            /\ stub' = nchannels + 1
            /\ connected' = TRUE
       ELSE UNCHANGED <<nchannels, channel, stub, connected>>
    /\ handed' = [stub |-> stub', open |-> stub' \notin closed]
    /\ UNCHANGED <<closed, answered>>
    /\ UNCHANGED <<bvars, cvars, hvars, dvars, pvars, wvars, lvars, gvars>>

\* a caller asks is_connected()
IsConnected ==
    /\ answered' = [asked |-> TRUE, ans |-> is_connected,
                    open |-> channel # 0 /\ channel \notin closed]
    /\ UNCHANGED <<channel, stub, connected, nchannels, closed, handed>>
    /\ UNCHANGED <<bvars, cvars, hvars, dvars, pvars, wvars, lvars, gvars>>

\* AIClient.__init__, lines 35-40
AInit ==
    /\ channel = 0
    /\ stub = 0
    /\ connected = FALSE
    /\ nchannels = 0
    /\ closed = {}
    /\ handed = [stub |-> 0, open |-> FALSE]
    /\ answered = [asked |-> FALSE, ans |-> FALSE, open |-> FALSE]

ANext ==
    \/ Connect
    \/ Close
    \/ GetStub
    \/ IsConnected

(***************************************************************************)
(* Specifications                                                          *)
(***************************************************************************)
\* the batcher alone
Init ==
    /\ BInit /\ CInitWith(1) /\ HInitWith(1)
    /\ DInitWith("detection", FALSE) /\ PInitWith(1) /\ WInit /\ LInit /\ GInit /\ AInit

\* the breaker alone, for every half_open_max_calls up to MaxHalfOpen
BreakerInit ==
    /\ BInit /\ (\E m \in 1..MaxHalfOpen : CInitWith(m)) /\ HInitWith(1)
    /\ DInitWith("detection", FALSE) /\ PInitWith(1) /\ WInit /\ LInit /\ GInit /\ AInit

BreakerSpec == BreakerInit /\ [][CNext]_vars

\* the health record alone, for every failure_threshold up to MaxThreshold
HealthInit ==
    BInit /\ CInitWith(1) /\ (\E threshold \in 1..MaxThreshold : HInitWith(threshold))
    /\ DInitWith("detection", FALSE) /\ PInitWith(1) /\ WInit /\ LInit /\ GInit /\ AInit

HealthSpec == HealthInit /\ [][HNext]_vars

Spec == Init /\ [][BNext]_vars

\* the batcher alone, with callers that may be cancelled
CancelSpec == Init /\ [][BNextWithCancel]_vars

\* the request-facing process alone, for every endpoint, with the service's
\* health record as earlier requests may have left it
DispatchInit ==
    /\ BInit
    /\ CInitWith(1)
    /\ \E e \in Endpoints : \E c \in BOOLEAN : DInitWith(e, c)
    /\ \E k \in 0..DefaultFailureThreshold : health = Failed(k, clock)
    /\ hlog = NoHealthCall
    /\ PInitWith(1) /\ WInit /\ LInit /\ GInit /\ AInit

DispatchSpec == DispatchInit /\ [][DNext]_vars

\* one memory pool alone, for every initial pool_size up to MaxInitPool
PoolInit ==
    /\ BInit /\ CInitWith(1) /\ HInitWith(1) /\ DInitWith("detection", FALSE)
    /\ \E size \in 1..MaxInitPool : PInitWith(size)
    /\ WInit /\ LInit /\ GInit /\ AInit

PoolSpec == PoolInit /\ [][PNext]_vars

\* the worker process lifecycle alone
LifeSpec == Init /\ [][WNext]_vars

\* the lock discipline alone
LockSpec == Init /\ [][LNext]_vars

\* the registry of memory pools alone
GetPoolSpec == Init /\ [][GNext]_vars

\* the gRPC client alone
ClientSpec == Init /\ [][ANext]_vars

\* the event loop runs every ready task and every due timer, the clock
\* advances, and every process_fn invocation terminates
LiveSpec ==
    /\ Spec
    /\ WF_vars(TimerFire)
    /\ WF_vars(RunTask)
    /\ WF_vars(Tick)
    /\ WF_vars(Finish)

(***************************************************************************)
(* Claims about the DynamicBatcher                                         *)
(***************************************************************************)
InFlight(i) == \E f \in flights : i \in Range(f.batch)
MembersOf(n) == {i \in Items : batch_of[i] = n}
Done(i) == future[i].st \in {"result", "exception"}

\* C1: the adds of one burst (starting on an idle batcher, all within
\* max_wait_ms of the first, at most max_batch_size of them) are handed to
\* process in one invocation, and every caller gets the result computed for
\* its own payload.
C1_BurstIsOneInvocation ==
    /\ \A i, j \in Items :
           (burst[i] # 0 /\ burst[i] = burst[j] /\ batch_of[i] # 0 /\ batch_of[j] # 0)
               => batch_of[i] = batch_of[j]
    /\ \A i \in Items :
           future[i].st = "result" => future[i].val = ProcessResult(data[i])

\* C2: when process fails for a batch (it raises, or returns anything but one
\* result per input), every member of the batch is resolved with the failure
\* and none with a result.
C2_FailedBatchResolvesAll ==
    (/\ last_done.inv # 0
     /\ \/ last_done.kind # "return"
        \/ last_done.nresults # Cardinality(MembersOf(last_done.inv)))
        => \A i \in MembersOf(last_done.inv) : future[i].st = "exception"

\* C3: every enqueued item is in exactly one place (queue, a running flush, or
\* finished), its payload is passed to process at most once, its future is set
\* at most once, and once its flush is over both happened exactly once.
C3_ExactlyOnce ==
    \A i \in Items :
        /\ processed[i] <= 1
        /\ resolved[i] <= 1
        /\ Cardinality({k \in 1..Len(queue) : queue[k] = i}) <= 1
        /\ Cardinality({f \in flights : i \in Range(f.batch)}) <= 1
        /\ i <= nadded =>
               (i \in Range(queue)) # (batch_of[i] # 0)
        /\ (batch_of[i] # 0 /\ ~InFlight(i)) =>
               (processed[i] = 1 /\ resolved[i] = 1 /\ Done(i))

\* no queued item is stranded: a flush is running, a flush task is scheduled
\* or the timer is pending
NoStrand ==
    queue # <<>> => (is_processing \/ tasks > 0 \/ timer_task = "sleeping")

\* C4: every enqueued item is eventually taken into a batch and its future
\* resolved, and no queued item is ever stranded.
C4_EventuallyResolved ==
    /\ \A i \in Items : (future[i].st = "pending") ~> Done(i)
    /\ []NoStrand

\* C5: a batch smaller than max_batch_size is handed to process only once its
\* oldest item has waited max_wait_ms.
C5_SmallBatchWaits ==
    (last_inv.size > 0 /\ last_inv.size < max_batch_size)
        => last_inv.oldest >= max_wait_ms

\* C6: the add that fills the queue to max_batch_size schedules a flush in the
\* same step whatever the timer's state, and while a full queue waits with no
\* flush running a flush task is ready and the clock cannot advance.
C6_FullBatchFlushesAtOnce ==
    /\ []((Len(queue) >= max_batch_size /\ ~is_processing)
            => (tasks > 0 /\ ~ENABLED Tick))
    /\ [][(Len(queue') = Len(queue) + 1 /\ Len(queue') >= max_batch_size)
            => (tasks' = tasks + 1 /\ timer_task' = timer_task
                /\ timer_left' = timer_left)]_vars

\* a full batch was handed to process by a size-triggered flush while the
\* timer armed by its first item was still counting
C6_Witness ==
    /\ last_inv.size = max_batch_size
    /\ ~last_inv.timer
    /\ last_inv.oldest < max_wait_ms
    /\ timer_task = "sleeping" /\ timer_left > 0

\* a flush started by a task made with create_task, on fewer than
\* max_batch_size items (so not by the add that filled the queue)
FollowUp(f) == ~f.timer /\ Len(f.batch) < max_batch_size

\* C21: at most one process invocation is in progress at any time, whatever
\* the interleaving of adds, timer expiries and flush tasks; a flush that
\* completes with a non-empty queue schedules a follow-up flush in the same
\* step, and that flush starts before the clock advances.
C21_OneFlushAtATime ==
    /\ [](Cardinality(flights) <= 1)
    /\ [](is_processing <=> flights # {})
    /\ [][(flights # {} /\ flights' = {} /\ queue # <<>>)
            => (tasks' = tasks + 1 /\ queue' = queue)]_vars
    /\ []((queue # <<>> /\ ~is_processing /\ tasks > 0) => ~ENABLED Tick)
    /\ [][(tasks' < tasks /\ queue # <<>> /\ ~is_processing) => flights' # {}]_vars

\* an item that arrived during a flush is being processed by the follow-up
\* flush, started right after the earlier flush completed
C21_Witness ==
    /\ last_done.inv # 0
    /\ \E f \in flights :
           /\ FollowUp(f)
           /\ batch_of[f.batch[1]] = last_done.inv + 1
           /\ last_inv.oldest = 0

\* C22: every process invocation receives between 1 and max_batch_size
\* payloads, those of the items at the head of the FIFO queue in arrival
\* order, and when process returns one result per payload, result k goes to
\* the caller of payload k.
C22_HeadOfQueuePositional ==
    /\ [](\A k \in 1..Len(queue) - 1 : queue[k] < queue[k + 1])
    /\ [](\A f \in flights :
            /\ Len(f.batch) \in 1..max_batch_size
            /\ \A k \in 1..Len(f.batch) - 1 : f.batch[k + 1] = f.batch[k] + 1)
    /\ [][\A f \in flights' \ flights :
            /\ f.batch = SubSeq(queue, 1, Len(f.batch))
            /\ queue' = SubSeq(queue, Len(f.batch) + 1, Len(queue))
            /\ Len(f.batch) = max_batch_size \/ queue' = <<>>]_vars
    /\ [][\A f \in flights \ flights' :
            (last_done'.kind = "return" /\ last_done'.nresults = Len(f.batch))
                => \A k \in 1..Len(f.batch) :
                       future'[f.batch[k]] =
                           [st |-> "result", exc |-> "",
                            val |-> ProcessResult(data[f.batch[k]])]]_vars

\* the first flush cut a full batch from the head of a longer queue (the add
\* after the one that filled it scheduled a flush too) and each of its callers
\* has the result of its own payload, while the rest still waits
C22_Witness ==
    /\ last_done.kind = "return" /\ last_done.nresults = max_batch_size
    /\ \A i \in MembersOf(last_done.inv) :
           future[i].st = "result" /\ future[i].val = ProcessResult(data[i])
    /\ last_done.inv = 1
    /\ queue = <<max_batch_size + 1>> /\ tasks = 2

\* C23: when process returns a list whose length differs from the batch
\* size, every member of the batch is resolved with the same mismatch error
\* and none receives a returned result.
C23_MismatchFailsWholeBatch ==
    /\ [][\A f \in flights \ flights' :
            (last_done'.kind = "return" /\ last_done'.nresults # Len(f.batch))
                => \A k \in 1..Len(f.batch) :
                       future'[f.batch[k]] =
                           [st |-> "exception", val |-> 0, exc |-> "ValueError"]]_vars
    /\ []((last_done.kind = "return"
           /\ last_done.nresults # Cardinality(MembersOf(last_done.inv)))
            => \A i \in MembersOf(last_done.inv) : future[i].st # "result")

\* process returned one result too many for a full batch, and both members
\* hold the mismatch error
C23_Witness ==
    /\ last_done.kind = "return"
    /\ last_done.nresults = max_batch_size + 1
    /\ Cardinality(MembersOf(last_done.inv)) = max_batch_size
    /\ \A i \in MembersOf(last_done.inv) :
           future[i].st = "exception" /\ future[i].exc = "ValueError"

(***************************************************************************)
(* Claims about the CircuitBreaker                                         *)
(***************************************************************************)
\* thread t performs the admission check of execute in this step
Checks(t) == pc[t] = "check" /\ pc'[t] # "check"

\* calls admitted in the current HALF_OPEN period
AdmittedProbes ==
    probes + Cardinality({t \in Threads : pc[t] = "admitted" /\ probe[t]})

\* an OPEN breaker rejects every call made no more than recovery_timeout after
\* the last failure
RejectsWhileOpen ==
    \A t \in Threads :
        (Checks(t) /\ cb.state = "open"
           /\ clock - cb.last_failure_time <= recovery_timeout)
            => (pc'[t] = "raised" /\ cb' = cb)

\* C7 as stated: an OPEN breaker rejects calls until recovery_timeout has
\* elapsed since the last failure, and the breaker leaves HALF_OPEN (re-evaluates
\* to OPEN or CLOSED) only after exactly half_open_max_calls calls were admitted.
C7_ExactlyMaxProbes ==
    [][/\ RejectsWhileOpen
       /\ (cb.state = "half_open" /\ cb'.state # "half_open")
             => AdmittedProbes = cb.half_open_max_calls]_vars

\* C7, amended: the breaker is never CLOSED with failure_threshold failures
\* counted; while OPEN it rejects calls until more than recovery_timeout has
\* elapsed since the last failure; the first check after that moves it to
\* HALF_OPEN with the probe counter reset and admits the call; and the first
\* outcome recorded while HALF_OPEN re-evaluates it at once, CLOSED on a
\* success and OPEN on a failure.
C7_ReevaluatesOnFirstOutcome ==
    /\ [](cb.state = "closed" => cb.failure_count < failure_threshold)
    /\ [][/\ RejectsWhileOpen
          /\ \A t \in Threads :
               /\ (Checks(t) /\ cb.state = "open"
                     /\ clock - cb.last_failure_time > recovery_timeout)
                    => (/\ pc'[t] = "admitted"
                        /\ cb'.state = "half_open"
                        /\ cb'.half_open_calls = 0)
               /\ (cb.state = "half_open" /\ pc[t] = "call" /\ pc'[t] = "idle")
                    => cb'.state = "closed"
               /\ (cb.state = "half_open" /\ pc[t] = "call" /\ pc'[t] = "raised")
                    => cb'.state = "open"]_vars

\* the breaker closed again after a HALF_OPEN period in which a single call
\* was admitted, although half_open_max_calls is larger
C7_Witness ==
    /\ cb.half_open_max_calls > 1
    /\ cb.state = "closed"
    /\ probes = 1
    /\ \A t \in Threads : pc[t] \notin {"admitted", "call"}

\* C8: in one HALF_OPEN period at most half_open_max_calls calls have their
\* function invoked as probes, whatever the interleaving of the threads.
C8_ProbeCap == probes <= cb.half_open_max_calls

\* C9: a call the breaker does not admit raises the breaker-open error without
\* invoking the function and without touching state, failure_count or
\* last_failure_time, in execute and in answer_question's handler; the function
\* runs only after an admission and never raises the breaker-open error.
C9_RejectionIsNotAFailure ==
    [][\A t \in Threads :
          /\ (pc[t] = "check" /\ pc'[t] = "raised")
                => (err'[t] = "open" /\ cb' = cb)
          /\ (pc[t] = "handler" /\ err[t] = "open" /\ pc'[t] # "handler")
                => cb' = cb
          /\ (pc[t] # "call" /\ pc'[t] = "call") => pc[t] = "admitted"
          /\ (pc[t] = "call" /\ pc'[t] = "raised") => err'[t] # "open"]_vars

\* a request whose last attempt was rejected by the OPEN breaker is in
\* answer_question's handler
C9_Witness ==
    \E t \in Threads :
        pc[t] = "handler" /\ err[t] = "open" /\ cb.state = "open"

\* C24: every change of the breaker's state is CLOSED->OPEN by the recorded
\* failure that brings failure_count to failure_threshold, OPEN->HALF_OPEN by
\* a can_execute made more than recovery_timeout after the last failure,
\* HALF_OPEN->CLOSED by a recorded success, or HALF_OPEN->OPEN by a recorded
\* failure; a success recorded while OPEN leaves the breaker as it is.
C24_OnlyFourTransitions ==
    [][/\ cb'.state # cb.state =>
            \/ /\ cb.state = "closed" /\ cb'.state = "open"
               /\ last_call' = [op |-> "record_failure", state |-> "closed"]
               /\ cb.failure_count < failure_threshold
               /\ cb'.failure_count = failure_threshold
            \/ /\ cb.state = "open" /\ cb'.state = "half_open"
               /\ last_call' = [op |-> "can_execute", state |-> "open"]
               /\ clock - cb.last_failure_time > recovery_timeout
            \/ /\ cb.state = "half_open" /\ cb'.state = "closed"
               /\ last_call' = [op |-> "record_success", state |-> "half_open"]
            \/ /\ cb.state = "half_open" /\ cb'.state = "open"
               /\ last_call' = [op |-> "record_failure", state |-> "half_open"]
       /\ \A t \in Threads :
            (pc[t] = "call" /\ pc'[t] = "idle" /\ cb.state = "open") => cb' = cb]_vars

\* a call admitted while the breaker was CLOSED returned after other failures
\* had opened it: its success was recorded while OPEN and the breaker is OPEN
C24_Witness ==
    /\ last_call = [op |-> "record_success", state |-> "open"]
    /\ cb.state = "open"
    /\ cb.failure_count >= failure_threshold

\* C25: can_execute never changes failure_count or last_failure_time; the only
\* state change it makes is OPEN->HALF_OPEN, together with resetting the probe
\* counter; called in CLOSED or HALF_OPEN, however often, it leaves the whole
\* breaker unchanged and so takes no probe slot.
C25_CanExecuteIsPure ==
    [][\A t \in Threads : Checks(t) =>
          /\ cb'.failure_count = cb.failure_count
          /\ cb'.last_failure_time = cb.last_failure_time
          /\ cb'.half_open_max_calls = cb.half_open_max_calls
          /\ cb'.state # cb.state =>
                 (/\ cb.state = "open" /\ cb'.state = "half_open"
                  /\ cb'.half_open_calls = 0)
          /\ cb'.state = cb.state => cb' = cb
          /\ cb.state \in {"closed", "half_open"} => cb' = cb]_vars

\* a call was rejected twice in a row by the HALF_OPEN breaker whose probe
\* slots are taken, and the breaker is as the probes left it
C25_Witness ==
    /\ last_call = [op |-> "can_execute", state |-> "half_open"]
    /\ cb.state = "half_open"
    /\ cb.half_open_calls = cb.half_open_max_calls
    /\ \E t \in Threads : pc[t] = "raised" /\ err[t] = "open" /\ attempt[t] >= 2

(***************************************************************************)
(* Claims about ServiceHealth                                              *)
(***************************************************************************)
\* C10 as stated: status is UNAVAILABLE iff consecutive_failures >=
\* failure_threshold, DEGRADED iff floor(failure_threshold/2) <=
\* consecutive_failures < failure_threshold, HEALTHY otherwise.
C10_StatusFunction ==
    LET n == health.consecutive_failures
        th == health.failure_threshold
    IN /\ health.status = "unavailable" <=> n >= th
       /\ health.status = "degraded" <=> (th \div 2 <= n /\ n < th)
       /\ health.status = "healthy" <=> n < th \div 2

\* C10, amended: status is UNAVAILABLE iff consecutive_failures >=
\* failure_threshold, DEGRADED iff there is at least one consecutive failure
\* and floor(failure_threshold/2) <= consecutive_failures < failure_threshold,
\* HEALTHY otherwise.
C10_StatusFunctionAfterFailure ==
    LET n == health.consecutive_failures
        th == health.failure_threshold
        degraded == n >= 1 /\ th \div 2 <= n /\ n < th
    IN /\ health.status = "unavailable" <=> n >= th
       /\ health.status = "degraded" <=> degraded
       /\ health.status = "healthy" <=> (n < th /\ ~degraded)

\* a service is DEGRADED after failures that followed a recovery
C10_Witness ==
    /\ health.status = "degraded"
    /\ health.total_requests > health.consecutive_failures

\* C11: with failure_threshold = 4, two consecutive failures after a HEALTHY
\* state give DEGRADED and four give UNAVAILABLE; one record_success from any
\* status gives HEALTHY with consecutive_failures = 0 and leaves
\* total_failures as it was.
C11_ThresholdFour ==
    [][health.failure_threshold = 4 =>
          /\ (health'.consecutive_failures = health.consecutive_failures + 1
                /\ health'.consecutive_failures = 2)
                 => health'.status = "degraded"
          /\ (health'.consecutive_failures = health.consecutive_failures + 1
                /\ health'.consecutive_failures = 4)
                 => health'.status = "unavailable"
          /\ (health'.total_requests = health.total_requests + 1
                /\ health'.total_failures = health.total_failures)
                 => (/\ health'.status = "healthy"
                     /\ health'.consecutive_failures = 0
                     /\ health'.total_failures = health.total_failures)]_vars

\* a service with failure_threshold = 4 went through four consecutive
\* failures and is HEALTHY again after one success
C11_Witness ==
    /\ health.failure_threshold = 4
    /\ health.total_failures >= 4
    /\ health.total_requests = health.total_failures + 1
    /\ health.status = "healthy"
    /\ health.consecutive_failures = 0

(***************************************************************************)
(* Claims about the request-facing process                                 *)
(***************************************************************************)
\* C12: should_use_fallback returns false whenever the service is not
\* UNAVAILABLE; while UNAVAILABLE it returns false for exactly one call per
\* elapsed recovery_timeout window (the probe) and true for every other call,
\* also for calls made while that probe is still outstanding.
C12_OneProbePerWindow ==
    [][\A r \in Requests :
          (/\ req[r].pc = "new" /\ req'[r].pc # "new"
           /\ endpoint \in SingleEndpoints /\ ~cache)
              => LET fallback == req'[r].via = "fallback"
                     elapsed == clock - health.last_failure_time
                                    >= health.recovery_timeout
                 IN /\ health.status # "unavailable" => ~fallback
                    /\ health.status = "unavailable"
                          => (fallback <=> ~(elapsed /\ let_through = 0))]_vars

\* the call of request r was dispatched to the worker and is over for the client
Dispatched(r) == req[r].via = "dispatch" /\ req[r].response # NoResponse
\* what the client can tell apart: HTTP status and error code
Visible(r) == <<req[r].response.http, req[r].response.code, req[r].response.status>>
Failure(r) == req[r].response.http # 200 \/ req[r].response.status = "error"

\* C15: every call the worker serves carries the trace id of the request it
\* was made for: the id the worker reads from the call metadata is the
\* request's id.
C15_TraceIdReachesWorker ==
    \A r \in Requests : req[r].got # "none" => req[r].got = req[r].rid

\* C16: a dispatched call that ends while the worker process is dead ends
\* with a failure for the client and adds exactly one failure (and no
\* success) to the service's health record.
C16_DeadWorkerIsOneFailure ==
    \A r \in Requests :
        (Dispatched(r) /\ req[r].pc = "done" /\ req[r].orphan)
            => (Failure(r) /\ req[r].nfail = 1 /\ req[r].nsucc = 0)

\* C17: a dispatched call that ends by timeout is recorded as one failure in
\* the service's health record.
C17_TimeoutIsRecorded ==
    \A r \in Requests :
        (req[r].cause = "timeout" /\ req[r].pc = "done") => req[r].nfail = 1

\* C18: a request rejected by the open breaker and a request that timed out
\* end with a client-visible outcome that is a failure and differs from the
\* outcome of a request whose backend computation failed.
C18_UnavailableIsDistinct ==
    \A r, q \in Requests :
        (/\ req[r].pc = "done" /\ req[r].cause \in {"open", "timeout"}
         /\ req[q].pc = "done" /\ req[q].cause = "error")
            => (Failure(r) /\ Visible(r) # Visible(q))

\* C19: a request answered by the fallback path gets a response with
\* is_fallback = true; a request answered from a worker result or from the
\* cache gets a response with is_fallback = false; both have the structure
\* the endpoint's response schema declares.
C19_FallbackMarker ==
    \A r \in Requests :
        /\ (req[r].pc = "done" /\ req[r].via = "fallback")
              => (/\ req[r].response.is_fallback = "true"
                  /\ req[r].response.data = SchemaData(endpoint))
        /\ (req[r].pc = "done"
              /\ (req[r].via = "cache" \/ req[r].cause = "success"))
              => (/\ req[r].response.is_fallback = "false"
                  /\ req[r].response.data = SchemaData(endpoint))

\* the service is UNAVAILABLE and its recovery window has not elapsed: the
\* condition under which should_use_fallback answers true
FallbackDue ==
    /\ health.status = "unavailable"
    /\ clock - health.last_failure_time < health.recovery_timeout

\* C26: a request for which should_use_fallback answers true makes no dispatch
\* call to the worker and leaves the health record as it was: the fallback is
\* served and nothing is counted, neither a failure nor a success.
C26_FallbackLeavesHealthAlone ==
    /\ [][\A r \in Requests :
            (/\ req[r].pc = "new" /\ req'[r].pc # "new"
             /\ endpoint \in SingleEndpoints /\ ~cache /\ FallbackDue)
                => (/\ req'[r].pc = "done"
                    /\ req'[r].via = "fallback"
                    /\ health' = health)]_vars
    /\ [](\A r \in Requests :
            req[r].via = "fallback"
                => (/\ req[r].pc = "done"
                    /\ req[r].got = "none"
                    /\ req[r].nsucc = 0 /\ req[r].nfail = 0))

\* a request was answered with the fallback while the service is UNAVAILABLE
\* with exactly the failures that made it so
C26_Witness ==
    \E r \in Requests :
        /\ req[r].via = "fallback"
        /\ req[r].response.is_fallback = "true"
        /\ health.status = "unavailable"
        /\ health.consecutive_failures = health.failure_threshold
        /\ health.total_requests = health.total_failures

\* C27: every request that made a dispatch call to the worker, on a
\* single-item endpoint or for a file of a batch endpoint, and whose handler
\* is over has recorded exactly one outcome in the health record: a success
\* if the worker answered with success, a failure otherwise.
C27_OneOutcomePerDispatch ==
    \A r \in Requests :
        (req[r].via = "dispatch" /\ req[r].pc = "done")
            => IF req[r].cause = "success"
               THEN req[r].nsucc = 1 /\ req[r].nfail = 0
               ELSE req[r].nsucc = 0 /\ req[r].nfail = 1

(***************************************************************************)
(* Claims about the MemoryPool                                             *)
(***************************************************************************)
\* thread t holds a pooled buffer: between the locked pop and the locked append
Holding(t) == user[t].pc \in {"body", "release"} /\ user[t].is_pooled
\* thread t holds a temporary buffer created because the pool was exhausted
Overflowing(t) == user[t].pc \in {"body", "release"} /\ ~user[t].is_pooled

\* C13: under any interleaving of acquire and release a pooled buffer is held
\* by at most one acquirer: the free-list holds no index twice and no index of
\* a buffer in use; an acquire on an exhausted pool still gets a fresh empty
\* buffer, and such a buffer never enters the pool.
C13_ExclusiveBuffers ==
    /\ \A j, k \in 1..Len(available) : j # k => available[j] # available[k]
    /\ \A t \in PoolThreads : Holding(t) => user[t].idx \notin Range(available)
    /\ \A t, u \in PoolThreads :
           (Holding(t) /\ Holding(u) /\ t # u) => user[t].idx # user[u].idx
    /\ \A t \in PoolThreads :
           Overflowing(t) => (user[t].idx = -1 /\ user[t].handed = EmptyBuffer)
    /\ Range(available) \subseteq 0..(pool_size - 1)
    /\ Len(available) + Cardinality({t \in PoolThreads : Holding(t)}) = pool_size

\* every pooled buffer is in use while one more thread works on a temporary
\* buffer, and another thread has already released a temporary buffer
C13_Witness ==
    /\ available = <<>>
    /\ \E t \in PoolThreads : Overflowing(t) /\ user[t].tmp.len > 0
    /\ \E t \in PoolThreads :
           user[t].pc = "idle" /\ ~user[t].is_pooled /\ user[t].exit # "none"

\* C14: on every exit of the with block, also when the body raises, a pooled
\* buffer is reset to position 0 and length 0 and its index goes back to the
\* free-list exactly once; every buffer handed out is empty, and available
\* plus in-use buffers equals pool_size.
C14_ReleasedOnEveryExit ==
    /\ \A t \in PoolThreads :
           user[t].pc \in {"body", "release"} => user[t].handed = EmptyBuffer
    /\ \A i \in Range(available) : pool[i] = EmptyBuffer
    /\ \A t \in PoolThreads :
           /\ user[t].returned <= 1
           /\ (user[t].pc = "idle" /\ user[t].exit # "none" /\ user[t].is_pooled)
                 => user[t].returned = 1
           /\ (user[t].pc = "release") => BufferOf(t) = EmptyBuffer
    /\ Len(available) + Cardinality({t \in PoolThreads : Holding(t)}) = pool_size

\* a thread whose body wrote and raised has given its buffer back, and another
\* thread is working with that same buffer
C14_Witness ==
    \E t, u \in PoolThreads :
        /\ t # u
        /\ user[t].pc = "idle" /\ user[t].exit = "raise" /\ user[t].returned = 1
        /\ user[u].pc = "body" /\ user[u].is_pooled /\ user[u].idx = user[t].idx
        /\ pool[user[u].idx].len > 0

(***************************************************************************)
(* Claims about the worker process lifecycle                               *)
(***************************************************************************)
\* C20: the worker is spawned exactly once at service start; temporary files
\* are cleaned only after the server has stopped; and once the parent's
\* shutdown is over the worker process is no longer alive, being forcefully
\* terminated if it had not exited when the bounded wait ended.
C20_ShutdownStopsWorker ==
    /\ spawns <= 1
    /\ parent # "boot" => spawns = 1
    /\ cleaned # "early"
    /\ parent = "stopped" => ~Alive

(***************************************************************************)
(* Further claims about the MemoryPool                                     *)
(***************************************************************************)
\* the state of the pool itself, without its users
PoolState == <<pool_size, pool, available, total_acquired, total_fallbacks>>

\* C28: an acquire made while the free-list is empty adds one to
\* total_fallbacks and changes nothing else of the pool (free-list, pool_size,
\* total_acquired, pooled buffers); resetting and releasing the overflow buffer
\* it was given changes no pool state at all.
C28_ExhaustionTouchesOnlyCounter ==
    [][\A t \in PoolThreads :
          /\ (user[t].pc = "idle" /\ user'[t].pc = "body" /\ available = <<>>)
                => (/\ total_fallbacks' = total_fallbacks + 1
                    /\ available' = available
                    /\ pool_size' = pool_size
                    /\ total_acquired' = total_acquired
                    /\ pool' = pool
                    /\ ~user'[t].is_pooled)
          /\ (~user[t].is_pooled /\ user[t].pc \in {"body", "release"}
              /\ user'[t] # user[t])
                => PoolState' = PoolState]_vars

\* a thread that acquired from an exhausted pool has left its with block, and
\* the pool is still exhausted with the fallback counted
C28_Witness ==
    \E t \in PoolThreads :
        /\ user[t].pc = "idle" /\ ~user[t].is_pooled /\ user[t].exit # "none"
        /\ available = <<>>
        /\ total_fallbacks >= 1
        /\ total_acquired = pool_size

\* C29: pool_size never decreases; resize(n) with n <= pool_size changes
\* nothing; resize(n) with n > pool_size adds the n - pool_size indexes
\* pool_size..n-1 to the end of the free-list, each with an empty buffer, and
\* leaves the buffers in use, the indexes already free, the counters and the
\* users as they are.
C29_ResizeOnlyGrows ==
    /\ [][pool_size' >= pool_size]_vars
    /\ [](\A n \in 0..pool_size : resize(ThePool, n) = ThePool)
    /\ [](\A n \in (pool_size + 1)..MaxPoolSize :
            LET q == resize(ThePool, n)
            IN /\ q.pool_size = n
               /\ Len(q.available) = Len(available) + (n - pool_size)
               /\ SubSeq(q.available, 1, Len(available)) = available
               /\ \A k \in 1..(n - pool_size) :
                      q.available[Len(available) + k] = pool_size + k - 1
               /\ \A i \in pool_size..(n - 1) : q.pool[i] = EmptyBuffer
               /\ \A i \in 0..(pool_size - 1) : q.pool[i] = pool[i])
    /\ [][pool_size' # pool_size =>
            /\ Len(available') = Len(available) + (pool_size' - pool_size)
            /\ SubSeq(available', 1, Len(available)) = available
            /\ \A i \in 0..(pool_size - 1) : pool'[i] = pool[i]
            /\ \A i \in pool_size..(pool_size' - 1) : pool'[i] = EmptyBuffer
            /\ <<total_acquired, total_fallbacks, user>>'
                   = <<total_acquired, total_fallbacks, user>>]_vars

\* the pool was grown to MaxPoolSize while its only buffer was in use and
\* written to: the holder still has buffer 0 and its content, the new indexes
\* are free
C29_Witness ==
    /\ pool_size = MaxPoolSize
    /\ total_acquired = 1 /\ total_fallbacks = 0
    /\ available = [k \in 1..(MaxPoolSize - 1) |-> k]
    /\ \E t \in PoolThreads :
           /\ user[t].pc = "body" /\ user[t].is_pooled /\ user[t].idx = 0
           /\ pool[0].len > 0

(***************************************************************************)
(* Claims about the locks                                                  *)
(***************************************************************************)
\* p is at a suspension point: it awaits something or has yielded the buffer
Suspended(p) == running[p] # NotRunning /\ NextOp(p).op = "suspend"

\* the locks p holds
Held(p) == {l \in Locks : holder[l] = p}

\* C30: no coroutine or thread holds a lock at a suspension point: the
\* batcher's lock is held only around the enqueue of add and around the check
\* and dequeue of a flush, never during the timer sleep, the await of process
\* or the await of a future; the pool's lock is not held while the caller has
\* the buffer; and nobody holds two locks at once or keeps one after its code
\* path ended.
C30_NoLockAcrossSuspension ==
    \A p \in LockProcs :
        /\ Suspended(p) => Held(p) = {}
        /\ Cardinality(Held(p)) <= 1
        /\ running[p] = NotRunning => Held(p) = {}
        /\ holder["queue"] = p =>
               \/ NextOp(p).op = "release"
               \/ NextOp(p).what \in {"enqueue", "check", "dequeue"}
        /\ holder["pool"] = p =>
               \/ NextOp(p).op = "release"
               \/ NextOp(p).op = "work"

\* while a flush awaits process, add has taken the batcher's lock and enqueued
\* its item, and a pool user has the buffer it was handed
C30_Witness ==
    /\ \E f \in LockProcs :
           f[1] \in {"flush", "timer"} /\ Suspended(f) /\ NextOp(f).what = "process_fn"
    /\ \E a \in LockProcs :
           a[1] = "add" /\ holder["queue"] = a /\ NextOp(a).op = "release"
    /\ \E u \in LockProcs :
           Suspended(u) /\ NextOp(u).what = "yield" /\ holder["pool"] = Nobody

(***************************************************************************)
(* Further claims about the DynamicBatcher                                 *)
(***************************************************************************)
\* C31: an item enqueued while no flush is in progress and with fewer than
\* max_batch_size items queued never waits in the queue longer than
\* max_wait_ms: when it has waited that long the clock cannot advance before
\* it is handed to process. And an add made while a size-triggered flush is
\* in progress, or after one, that does not fill the queue leaves a timer
\* sleeping that fires within max_wait_ms, and a due timer fires before the
\* clock advances.
C31_TimerBoundsTheWait ==
    /\ [](\A i \in Range(queue) :
            calm[i] => (/\ age[i] <= max_wait_ms
                        /\ age[i] = max_wait_ms => ~ENABLED Tick))
    /\ [][(/\ Len(queue') = Len(queue) + 1
           /\ Len(queue') < max_batch_size
           /\ timer_task # "flushing")
            => (timer_task' = "sleeping" /\ timer_left' <= max_wait_ms)]_vars
    /\ []((timer_task = "sleeping" /\ timer_left = 0) => ~ENABLED Tick)

\* after an earlier flush was over, an item enqueued on its own was handed to
\* process by the timer when it had waited exactly max_wait_ms
C31_Witness ==
    /\ last_done.inv # 0
    /\ last_inv.timer /\ last_inv.oldest = max_wait_ms
    /\ \E f \in flights :
           /\ f.timer /\ calm[f.batch[1]]
           /\ batch_of[f.batch[1]] = last_done.inv + 1

\* C32: process invocations follow arrival order: every item of an earlier
\* invocation was enqueued before every item of a later one, and when the
\* later invocation has started every future of the earlier one is resolved.
C32_InvocationsInArrivalOrder ==
    \A i, j \in Items :
        (batch_of[i] # 0 /\ batch_of[j] # 0 /\ batch_of[i] < batch_of[j])
            => (i < j /\ Done(i))

\* C33: a caller cancelled while waiting leaves its item where it is, in the
\* queue or in the running batch; the item is taken and passed to process with
\* the head of the queue like any other; the flush ends as it would have (its
\* finally block runs, the cancelled future is left alone), and when process
\* returns one result per payload every member still waiting receives the
\* result at its own position.
C33_CancelledCallerKeepsItsPlace ==
    /\ [][\A i \in Items :
            (future[i].st = "pending" /\ future'[i].st = "cancelled")
                => (queue' = queue /\ flights' = flights /\ processed' = processed)]_vars
    /\ [][\A f \in flights' \ flights :
            /\ f.batch = SubSeq(queue, 1, Len(f.batch))
            /\ Len(f.batch) = max_batch_size \/ queue' = <<>>
            /\ \A k \in 1..Len(f.batch) : processed'[f.batch[k]] = 1]_vars
    /\ [][\A f \in flights \ flights' :
            /\ ~is_processing'
            /\ \A k \in 1..Len(f.batch) :
                   LET i == f.batch[k]
                   IN /\ future[i].st = "cancelled" => future'[i] = future[i]
                      /\ (/\ future[i].st = "pending"
                          /\ last_done'.kind = "return"
                          /\ last_done'.nresults = Len(f.batch))
                           => future'[i] = [st |-> "result", exc |-> "",
                                            val |-> ProcessResult(data[i])]]_vars

\* a full batch with a cancelled member went through process: the cancelled
\* future is still cancelled and the other member has its own result
C33_Witness ==
    /\ last_done.kind = "return" /\ last_done.nresults = max_batch_size
    /\ \E i, j \in MembersOf(last_done.inv) :
           /\ future[i].st = "cancelled" /\ processed[i] = 1
           /\ future[j].st = "result" /\ future[j].val = ProcessResult(data[j])
           /\ i < j

(***************************************************************************)
(* Further claims about the CircuitBreaker                                 *)
(***************************************************************************)
\* C34: a CLOSED breaker has counted fewer than failure_threshold failures, an
\* OPEN or HALF_OPEN breaker at least failure_threshold, and half_open_calls
\* never exceeds half_open_max_calls.
C34_CountersMatchState ==
    /\ cb.state = "closed" => cb.failure_count < failure_threshold
    /\ cb.state \in {"open", "half_open"} => cb.failure_count >= failure_threshold
    /\ cb.half_open_calls <= cb.half_open_max_calls

\* C35: a failing invocation of the function called through execute raises
\* failure_count by exactly one, whatever the error: execute counts it when
\* the function raises, and answer_question's handler does not count it again.
C35_OneFailureCountedOnce ==
    [][\A t \in Threads :
          /\ (pc[t] = "call" /\ pc'[t] = "raised")
                => cb'.failure_count = cb.failure_count + 1
          /\ (pc[t] = "handler" /\ pc'[t] # "handler")
                => cb'.failure_count = cb.failure_count]_vars

(***************************************************************************)
(* Further claims about ServiceHealth and GracefulDegradation              *)
(***************************************************************************)
\* C36: after any sequence of record_success and record_failure calls,
\* total_requests is the number of recorded successes plus the number of
\* recorded failures, total_failures is the number of recorded failures,
\* 0 <= consecutive_failures <= total_failures <= total_requests, neither
\* total ever decreases, and a should_use_fallback or get_stats call changes
\* none of the counters.
C36_CountersCountTheCalls ==
    /\ [](/\ health.total_requests = hlog.succ + hlog.fail
          /\ health.total_failures = hlog.fail
          /\ 0 <= health.consecutive_failures
          /\ health.consecutive_failures <= health.total_failures
          /\ health.total_failures <= health.total_requests)
    /\ [][/\ health'.total_requests >= health.total_requests
          /\ health'.total_failures >= health.total_failures
          /\ (hlog'.succ = hlog.succ /\ hlog'.fail = hlog.fail)
                => /\ health'.total_requests = health.total_requests
                   /\ health'.total_failures = health.total_failures
                   /\ health'.consecutive_failures
                         = health.consecutive_failures]_vars

\* successes and failures have both been recorded, the last failures in a
\* row, and the counters have then been read
C36_Witness ==
    /\ hlog.op = "get_stats"
    /\ hlog.succ >= 1
    /\ hlog.fail >= 3
    /\ health.consecutive_failures = 2
    /\ hlog.served >= 1

\* a should_use_fallback call that changes the log
AsksForFallback == hlog'.op = "should_use_fallback" /\ hlog' # hlog

\* C37: an UNAVAILABLE service permits a real attempt as soon as
\* recovery_timeout has elapsed since its last recorded failure and serves the
\* fallback before that, however many fallbacks were served meanwhile; a
\* success recorded for the attempt makes the service HEALTHY, a failure
\* leaves it UNAVAILABLE and restarts the timeout at that failure.
C37_RecoveryCycle ==
    [][/\ (AsksForFallback /\ health.status = "unavailable")
            => /\ hlog'.ret = (clock - health.last_failure_time
                                  < health.recovery_timeout)
               /\ health' = health
       /\ (hlog'.succ = hlog.succ + 1 /\ health.status = "unavailable")
            => health'.status = "healthy"
       /\ (hlog'.fail = hlog.fail + 1 /\ health.status = "unavailable")
            => /\ health'.status = "unavailable"
               /\ health'.last_failure_time = clock]_vars

\* a second recovery attempt is permitted: the first one failed while the
\* service was UNAVAILABLE, and fallbacks were served before the timeout had
\* elapsed again
C37_Witness ==
    /\ health.status = "unavailable"
    /\ health.total_failures > health.failure_threshold
    /\ hlog.op = "should_use_fallback"
    /\ hlog.ret = FALSE
    /\ hlog.served = MaxFallbacks
    /\ clock - health.last_failure_time = health.recovery_timeout

(***************************************************************************)
(* Claims about get_pool and the AIClient                                  *)
(***************************************************************************)
\* C38: get_pool(name) is a singleton per name under concurrency: whatever
\* the interleaving of the worker threads' calls, at most one MemoryPool is
\* ever constructed for a name and every call with that name returns the
\* same instance.
C38_OnePoolPerName ==
    \A n \in PoolNames :
        /\ made[n] <= 1
        /\ Cardinality(given[n]) <= 1

\* C39: after any sequence of connect, get_stub and close, the stub that
\* get_stub() returns is bound to a channel that has not been closed, and
\* is_connected() is true exactly when the client holds an open channel.
C39_StubOfAnOpenChannel ==
    /\ handed.stub # 0 => handed.open
    /\ answered.asked => (answered.ans <=> answered.open)
====
